---- MODULE Spec2Model ----
(***************************************************************************)
(* Autonomous verification pipeline (core/autonomous_pipeline.py) with the *)
(* schedulability analyzer (core/schedulability_analyzer.py) it drives.    *)
(* One pipeline run is a state machine: pc is the position inside          *)
(* run_pipeline, one action per stage.  The external verifier is the       *)
(* environment: its outcome is chosen nondeterministically at stage 6.     *)
(***************************************************************************)
EXTENDS Integers, Naturals, Sequences, FiniteSets, TLC

\* ---------------------------------------------------------------- bounds
MaxTasks == 2      \* number of tasks in an input specification
MaxTime  == 2      \* largest period / deadline / execution time in an input
MaxCE    == 1      \* counterexamples in one verifier outcome
MaxLlmProperties == 1   \* properties in one reply of the LLM
MaxAnalyzerTasks == 3   \* tasks in a list handed to analyze directly
LongTime == 150         \* a period longer than the response-time loop runs

TaTasks     == 3   \* templates in an emitted model
MaxTaPeriod == 3   \* largest period of a task in an emitted model

\* ------------------------------------------------------ program constants
max_repair_iterations == 10
DefaultPeriod == 100
RtIterationCap == 100
IniDefaultPeriod == 100
IniDefaultExecution == 50

\* A key that is missing from a task dict.
Absent == -1
NoName == "<absent>"

VARIABLES
    pc,             \* position inside run_pipeline
    iteration,      \* local `iteration`
    spec_input,     \* local `spec_input`: the JSON text, by its content
    current_spec,   \* local `current_spec`: sequence of task records
    verifyta_path,  \* self.verifyta_path is set (TRUE) or None (FALSE)
    stage_results,  \* self.stage_results: per iteration, the logged stages
    stage1_result,
    stage3_result,
    stage4_result,
    stage5_result,
    stage6_result,
    result,         \* the dict run_pipeline returns
    \* the emitted timed-automata model, one template instance per task
    loc,            \* location of each template
    clk,            \* clock x of each template
    cpu_owner,      \* shared int cpu_owner, -1 = free (0-based task index)
    task_scheduled, \* shared bool vector task_scheduled[]
    \* other run_pipeline calls on the same AutonomousPipeline instance
    other_records,  \* indices of the self.stage_results records that a
                    \* concurrent call appended
    other_entries,  \* <<record, entry>> positions of the stage entries that
                    \* a concurrent call logged
    first_call,     \* what an earlier call on this instance was given and
                    \* what it returned
    \* the LLM collaborator of stage 4
    use_llm,        \* self.use_llm
    execution_time_ms,  \* every task of the input document also carries a
                    \* key 'execution_time_ms' (the key stage 4 reads when
                    \* it prepares the task info for the LLM)
    llm_reply,      \* what the last request to the LLM server came to
    \* UppaalVerifier.verify and the file system it works on
    files,          \* the paths that exist (0 = the caller's xml_path,
                    \* k > 0 = the temporary file of the k-th call)
    xml_path,       \* local `xml_path` of the last call, -1 = none yet
    temp_file_used, \* local `temp_file_used` of the last call
    verify_exit,    \* how the last call left verify
    verify_calls,   \* calls of verify so far
    \* SchedulabilityAnalyzer called on its own
    analyze_tasks,  \* the task list a caller hands to analyze
    analysis,       \* the SchedulabilityResult analyze returned
    \* _stage7_failure_analysis called on deadlines that are not whole
    \* milliseconds
    stage7_spec,    \* spec["tasks"], then repaired_spec["tasks"]
    \* routes/async_routes.py: the module globals, the worker thread and
    \* the requests
    verification_queue,    \* the job ids in queue.Queue, oldest first
    verification_results,  \* the job ids that are keys of the dict
    active_verifications,  \* the job ids that are keys of the dict
    worker,                \* the worker thread: its position and its job
    queued_ids,            \* the ids verify_async has returned as queued
    status_request,        \* a verify_status request: position and job id
    status_reply           \* the last answer of verify_status

pipelineVars == <<pc, iteration, spec_input, verifyta_path, stage_results,
                  stage1_result, stage3_result, stage4_result, stage5_result,
                  stage6_result, result>>
taVars == <<loc, clk, cpu_owner, task_scheduled>>
callVars == <<other_records, other_entries, first_call>>
llmVars == <<use_llm, execution_time_ms, llm_reply>>
verifierVars == <<files, xml_path, temp_file_used, verify_exit, verify_calls>>
analyzerVars == <<analyze_tasks, analysis>>
repairVars == <<stage7_spec>>
asyncVars == <<verification_queue, verification_results, active_verifications,
               worker, queued_ids, status_request, status_reply>>
vars == <<pipelineVars, current_spec, taVars, callVars, llmVars, verifierVars,
          analyzerVars,
                   repairVars, asyncVars>>

\* ---------------------------------------------------------------- helpers
\* math.ceil(a / b) for a >= 0, b > 0
CeilDiv(a, b) == (a + b - 1) \div b
Million == 1000000

RECURSIVE SeqSum(_)
SeqSum(s) == IF s = <<>> THEN 0 ELSE Head(s) + SeqSum(Tail(s))

RECURSIVE SeqProd(_)
SeqProd(s) == IF s = <<>> THEN 1 ELSE Head(s) * SeqProd(Tail(s))

RECURSIVE SeqsUpTo(_, _)
SeqsUpTo(S, n) ==
    IF n = 0 THEN {<<>>}
    ELSE LET shorter == SeqsUpTo(S, n - 1)
         IN shorter \cup {Append(q, x) : q \in shorter, x \in S}

\* ------------------------------------------------------------ input space
TaskNames == {"Task_A", "Task-B"}

\* tasks with every key present
CompleteTasks ==
    [name : TaskNames, T : 1..MaxTime, D : 1..MaxTime, C : 1..MaxTime,
     P : 1..MaxTasks]

\* tasks with keys missing or a non-positive period / execution time
IncompleteTasks ==
    [name : {NoName}, T : {Absent, 0, MaxTime}, D : {Absent},
     C : {Absent, 0, 1}, P : {Absent}]

InputTasks == CompleteTasks \cup IncompleteTasks

NoSpec == [kind |-> "none", tasks |-> <<>>]
Garbage == [kind |-> "garbage", tasks |-> <<>>]
JsonDoc(tasks) == [kind |-> "json", tasks |-> tasks]

NoResult == [success |-> FALSE, converged |-> FALSE, iterations |-> 0]

\* ------------------------------------------------- stage 1: input validation
\* f"Task_{i+1}"
IndexName(i) == <<"Task_1", "Task_2", "Task_3", "Task_4">>[i]

\* _normalize_spec: every task gets a name
_normalize_spec(tasks) ==
    [i \in 1..Len(tasks) |->
        IF tasks[i].name = NoName
            THEN [tasks[i] EXCEPT !.name = IndexName(i)]
            ELSE tasks[i]]

\* the validation_errors list is non-empty
HasValidationErrors(tasks) ==
    \E i \in 1..Len(tasks) :
        \/ tasks[i].T = Absent \/ tasks[i].T <= 0
        \/ tasks[i].C = Absent \/ tasks[i].C <= 0

\* first loop of stage 1: deadline and priority are filled in place
FillDeadlinePriority(t) ==
    LET d == IF t.D = Absent
                THEN (IF t.T = Absent THEN DefaultPeriod ELSE t.T)
                ELSE t.D
        p == IF t.P = Absent THEN 1 ELSE t.P
    IN [t EXCEPT !.D = d, !.P = p]

\* second loop of stage 1 (only when there are errors): setdefault of the
\* missing keys; a key that is present keeps its value, whatever it is
SetDefaults(t) ==
    LET period == IF t.T = Absent THEN DefaultPeriod ELSE t.T
        exec   == IF t.C = Absent THEN period \div 2 ELSE t.C
    IN [t EXCEPT !.T = period, !.C = exec]

\* section.startswith("Task"), for the section names of the model
StartsWithTask(section) == section \in {"Task_A", "Task-B"}

\* _parse_ini: one task per section whose name starts with "Task"; getint
\* fallbacks for the keys a section does not have
_parse_ini(sections) ==
    LET kept == SelectSeq(sections, LAMBDA s : StartsWithTask(s.name))
    IN [i \in 1..Len(kept) |->
          LET period == IF kept[i].T = Absent THEN IniDefaultPeriod
                        ELSE kept[i].T
          IN [name |-> kept[i].name,
              T |-> period,
              D |-> IF kept[i].D = Absent THEN period ELSE kept[i].D,
              C |-> IF kept[i].C = Absent THEN IniDefaultExecution
                    ELSE kept[i].C,
              P |-> IF kept[i].P = Absent THEN 1 ELSE kept[i].P]]

\* input.kind is the input_format together with whether the text parses;
\* for "ini" input.tasks holds the sections of the text
_stage1_input_validation(input) ==
    IF input.kind \notin {"json", "ini"}
    THEN \* json.loads raises (text that does not parse, or None)
         [valid |-> FALSE, auto_fixed |-> FALSE, fixed_spec |-> NoSpec,
          normalized_spec |-> <<>>]
    ELSE LET spec == IF input.kind = "ini" THEN _parse_ini(input.tasks)
                     ELSE input.tasks
             normalized == _normalize_spec(spec)
             filled == [i \in 1..Len(normalized) |-> FillDeadlinePriority(normalized[i])]
         IN IF HasValidationErrors(normalized)
            THEN LET fixed == [i \in 1..Len(filled) |-> SetDefaults(filled[i])]
                 IN [valid |-> FALSE, auto_fixed |-> TRUE,
                     fixed_spec |-> JsonDoc(fixed), normalized_spec |-> fixed]
            ELSE [valid |-> TRUE, auto_fixed |-> FALSE, fixed_spec |-> NoSpec,
                  normalized_spec |-> filled]

\* --------------------------------------------- stage 2: priority validation
\* sorted(tasks, key=period_ms): Python's sort is stable
RECURSIVE InsertByPeriod(_, _)
InsertByPeriod(s, t) ==
    IF s = <<>> THEN <<t>>
    ELSE IF s[Len(s)].T <= t.T THEN Append(s, t)
    ELSE Append(InsertByPeriod(SubSeq(s, 1, Len(s) - 1), t), s[Len(s)])

\* a variant of SortedByPeriod: a sort that is not stable, a task goes
\* before the tasks of the same period already placed
RECURSIVE SortedByPeriod_TiesFirst(_)
SortedByPeriod_TiesFirst(tasks) ==
    IF tasks = <<>> THEN <<>>
    ELSE LET rest == SortedByPeriod_TiesFirst(SubSeq(tasks, 1, Len(tasks) - 1))
             t == tasks[Len(tasks)]
             k == Cardinality({i \in 1..Len(rest) : rest[i].T < t.T})
         IN SubSeq(rest, 1, k) \o <<t>> \o SubSeq(rest, k + 1, Len(rest))

RECURSIVE SortedByPeriod(_)
SortedByPeriod(tasks) ==
    IF tasks = <<>> THEN <<>>
    ELSE InsertByPeriod(SortedByPeriod(SubSeq(tasks, 1, Len(tasks) - 1)),
                        tasks[Len(tasks)])

\* a variant of CorrectPriority: every task gets the top priority
CorrectPriority_AlwaysOne(i) == 1

\* correct_priority = i + 1 for the 0-based position i in the sorted list
CorrectPriority(i) == i

\* the task records stage 2 was given, after it has run: the sort builds a
\* new list of the same dicts and `task["priority"] = correct_priority`
\* writes into them; a task's position in the stable sort is the number of
\* tasks sorted before it plus one
TasksAfterStage2(tasks) ==
    [j \in 1..Len(tasks) |->
        LET before == {k \in 1..Len(tasks) :
                          \/ tasks[k].T < tasks[j].T
                          \/ (tasks[k].T = tasks[j].T /\ k < j)}
        IN [tasks[j] EXCEPT !.P = CorrectPriority(Cardinality(before) + 1)]]

_stage2_priority_validation(tasks) ==
    LET sorted_tasks == SortedByPeriod(tasks)
        needs_fix == \E i \in 1..Len(sorted_tasks) :
                        sorted_tasks[i].P # CorrectPriority(i)
        rewritten == [i \in 1..Len(sorted_tasks) |->
                        [sorted_tasks[i] EXCEPT !.P = CorrectPriority(i)]]
    IN [needs_fix |-> needs_fix,
        fixed_spec |-> IF needs_fix THEN rewritten ELSE tasks]

\* ------------------------------------------------ schedulability analyzer
\* analyze, first loop: `x or default` replaces a falsy (0) value
ValidatedTask(t) ==
    LET exec_time == IF t.C = 0 THEN 10 ELSE t.C
        period == IF t.T = 0 THEN DefaultPeriod ELSE t.T
        deadline == IF t.D = 0 THEN period ELSE t.D
        priority == IF t.P = 0 THEN 5 ELSE t.P
    IN [t EXCEPT !.C = exec_time, !.T = period, !.D = deadline, !.P = priority]

\* the tasks whose execution is added as interference to task_i
\* (`if hp_task.get('priority', 5) > P_i`)
InterferenceSet(task, all_tasks) ==
    {j \in 1..Len(all_tasks) : all_tasks[j].P > task.P}

\* R_new = C_i + sum(ceil(R_i / T_j) * C_j)
NextResponse(task, all_tasks, R) ==
    task.C + SeqSum([j \in 1..Len(all_tasks) |->
                        IF j \in InterferenceSet(task, all_tasks)
                            THEN CeilDiv(R, all_tasks[j].T) * all_tasks[j].C
                            ELSE 0])

\* body of `for iteration in range(100)`: one iteration from iterate s.R;
\* exit tells which return statement of the loop was taken, if any
LoopBody(task, all_tasks, s) ==
    LET R_new == NextResponse(task, all_tasks, s.R)
    IN IF R_new = s.R THEN [R |-> R_new, exit |-> "converged"]
       ELSE IF R_new > task.D * 2 THEN [R |-> R_new, exit |-> "diverged"]
       ELSE [R |-> R_new, exit |-> "none"]

\* n iterations of the loop from s, or fewer when one of them returns
\* (split in halves to keep the evaluation shallow)
RECURSIVE ResponseLoop(_, _, _, _)
ResponseLoop(task, all_tasks, s, n) ==
    IF n = 1 THEN LoopBody(task, all_tasks, s)
    ELSE LET first == ResponseLoop(task, all_tasks, s, n \div 2)
         IN IF first.exit # "none" THEN first
            ELSE ResponseLoop(task, all_tasks, first, n - (n \div 2))

_calculate_response_time(task, all_tasks) ==
    ResponseLoop(task, all_tasks, [R |-> task.C, exit |-> "none"],
                 RtIterationCap).R

\* total_util = sum(C / T) as the fraction UtilNum / UtilDen
UtilDen(tasks) == SeqProd([i \in 1..Len(tasks) |-> tasks[i].T])
UtilNum(tasks) ==
    SeqSum([i \in 1..Len(tasks) |->
               tasks[i].C * SeqProd([j \in 1..Len(tasks) |->
                                        IF j = i THEN 1 ELSE tasks[j].T])])

\* sum(C / T) in double arithmetic, added in list order: for these lists of
\* <<C, T>> the exact sum is 1 and the double sum is 1.0000000000000002
FloatSumAboveOne ==
    {<< <<1, 5>>, <<23, 30>>, <<1, 30>> >>,
     << <<23, 30>>, <<1, 5>>, <<1, 30>> >>}

\* sum(C / T) <= 1 exactly: decided on the sum in millionths when it is
\* away from 1 by more than the rounding of the terms, on the fraction
\* UtilNum / UtilDen otherwise
ExactUtilizationAtMostOne(tasks) ==
    LET n == Len(tasks)
        lower == SeqSum([i \in 1..n |-> (tasks[i].C * Million) \div tasks[i].T])
        upper == SeqSum([i \in 1..n |-> CeilDiv(tasks[i].C * Million, tasks[i].T)])
    IN IF upper <= Million THEN TRUE
       ELSE IF lower > Million THEN FALSE
       ELSE UtilNum(tasks) <= UtilDen(tasks)

\* total_util <= 1.0
UtilizationAtMostOne(tasks) ==
    /\ [i \in 1..Len(tasks) |-> <<tasks[i].C, tasks[i].T>>] \notin FloatSumAboveOne
    /\ ExactUtilizationAtMostOne(tasks)

\* failed_tasks: the names of the tasks with response_time > deadline
FailedTasks(validated) ==
    {validated[i].name : i \in
        {k \in 1..Len(validated) :
            _calculate_response_time(validated[k], validated) > validated[k].D}}

\* is_schedulable = len(failed_tasks) == 0 and total_util <= 1.0
IsSchedulable(failed_tasks, validated) ==
    failed_tasks = {} /\ UtilizationAtMostOne(validated)

\* analyze raises ZeroDivisionError on an empty list (2 ** (1/n))
AnalyzeRaises(tasks) == Len(tasks) = 0

\* _check_priority_inversion: the pairs (i, j), i before j in the list, for
\* which a warning is appended
_check_priority_inversion(tasks) ==
    {<<i, j>> \in (1..Len(tasks)) \X (1..Len(tasks)) :
        /\ i < j
        /\ tasks[i].T < tasks[j].T
        /\ tasks[i].P < tasks[j].P}

analyze(tasks) ==
    LET validated == [i \in 1..Len(tasks) |-> ValidatedTask(tasks[i])]
        failed_tasks == FailedTasks(validated)
    IN [is_schedulable |-> IsSchedulable(failed_tasks, validated),
        failed_tasks |-> failed_tasks,
        priority_warnings |-> _check_priority_inversion(validated)]

\* ------------------------------------------ stage 3: schedulability analysis
\* math.ceil(R * 1.1) in double arithmetic: for these R (all below 1000)
\* the product lies just above the exact 11R/10, which is an integer
FloatRoundsUp ==
    {50, 90, 100, 110} \cup {170 + 10 * k : k \in 0..6}
    \cup {330 + 10 * k : k \in 0..13} \cup {650 + 10 * k : k \in 0..28}
CeilTimes1_1(R) ==
    CeilDiv(11 * R, 10) + (IF R \in FloatRoundsUp THEN 1 ELSE 0)

\* response_times[name]: a dict, so the last task of a name wins
ResponseTimes(analyzer_tasks) ==
    [nm \in {analyzer_tasks[i].name : i \in 1..Len(analyzer_tasks)} |->
        LET last == CHOOSE i \in 1..Len(analyzer_tasks) :
                        /\ analyzer_tasks[i].name = nm
                        /\ \A j \in 1..Len(analyzer_tasks) :
                              analyzer_tasks[j].name = nm => j <= i
        IN _calculate_response_time(analyzer_tasks[last], analyzer_tasks)]

\* a variant of RepairTask: the deadline is raised, the period is kept
RepairTask_DeadlineOnly(task, R) ==
    IF R > task.D THEN [task EXCEPT !.D = CeilTimes1_1(R)] ELSE task

RepairTask(task, R) ==
    IF R > task.D
    THEN LET d == CeilTimes1_1(R)
         IN [task EXCEPT !.D = d, !.T = IF d > task.T THEN d ELSE task.T]
    ELSE task

_auto_repair_schedulability(tasks, response_times) ==
    [i \in 1..Len(tasks) |-> RepairTask(tasks[i], response_times[tasks[i].name])]

_stage3_schedulability_analysis(tasks) ==
    LET res == analyze(tasks)
        response_times == ResponseTimes(tasks)
    IN [schedulable |-> res.is_schedulable,
        response_times |-> response_times,
        fixed_spec |-> IF res.is_schedulable THEN tasks
                       ELSE _auto_repair_schedulability(tasks, response_times)]

\* ------------------------------------------ stage 4: property generation
\* re.sub(r'[^A-Za-z0-9_]', '_', name)
_sanitize_name(name) == IF name = "Task-B" THEN "Task_B" ELSE name

\* the deterministic templates, in the order they are appended
TemplateProperties(tasks) ==
    LET n == Len(tasks)
        deadlock == <<[category |-> "SAFETY", kind |-> "deadlock",
                       a |-> "", b |-> "", bound |-> 0]>>
        deadline == [i \in 1..n |->
                        [category |-> "DEADLINE", kind |-> "deadline",
                         a |-> _sanitize_name(tasks[i].name), b |-> "",
                         bound |-> tasks[i].D]]
        reach == [i \in 1..n |->
                        [category |-> "LIVENESS", kind |-> "reach",
                         a |-> _sanitize_name(tasks[i].name), b |-> "",
                         bound |-> 0]]
        pairs == {<<i, j>> \in (1..n) \X (1..n) : i < j}
        \* position of pair (i, j) in the nested loops over i < j
        pos(i, j) == Cardinality({q \in pairs :
                        q[1] < i \/ (q[1] = i /\ q[2] <= j)})
        mutex == [k \in 1..Cardinality(pairs) |->
                    LET q == CHOOSE q \in pairs : pos(q[1], q[2]) = k
                    IN [category |-> "MUTUAL_EXCLUSION", kind |-> "mutex",
                        a |-> _sanitize_name(tasks[q[1]].name),
                        b |-> _sanitize_name(tasks[q[2]].name), bound |-> 0]]
    IN deadlock \o deadline \o reach \o mutex

\* analyze has not returned
NoAnalysis == [is_schedulable |-> FALSE, failed_tasks |-> {},
               priority_warnings |-> {}]

\* verify has not been called
NoExit == [kind |-> "none", error |-> "none", all_passed |-> FALSE]

\* the LLM collaborator was not asked
NotCalled == [status |-> "not called", properties |-> <<>>]

\* the location names an LLM formula may use: one as the templates name it,
\* one in lower case, one that no template has
LlmLocations == {"Done", "done", "Running"}

\* the formulas an LLM reply is made of: "E<> <task>_inst.<location>", the
\* location kept in field b
LlmFormulas(tasks) ==
    {[category |-> "LIVENESS", kind |-> "llm", a |-> tasks[1].name \o "_inst",
      b |-> l, bound |-> 0] : l \in LlmLocations}

\* what a request to the LLM server comes to: _try_llm_generation returns
\* None ("failed": server unreachable, status not 200, reply without JSON),
\* a list of properties ("ok"), or a list with a formula that is no string
\* ("bad formula"), on which generate_properties_with_llm raises
LlmReplies(tasks) ==
    {[status |-> "failed", properties |-> <<>>],
     [status |-> "bad formula", properties |-> <<>>]}
    \cup {[status |-> "ok", properties |-> ps] :
            ps \in SeqsUpTo(LlmFormulas(tasks), MaxLlmProperties)}

\* formula.replace('.done', '.Done') and the five other replacements
FixCapitalization(location) ==
    CASE location = "done" -> "Done"
      [] location = "ready" -> "Ready"
      [] location = "idle" -> "Idle"
      [] location = "scheduled" -> "Scheduled"
      [] location = "executing" -> "Executing"
      [] location = "completing" -> "Completing"
      [] OTHER -> location

\* LLMPropertyGenerator._fallback_properties: rule-based properties of the
\* first task, on the process name "<task>_inst"
_fallback_properties(tasks) ==
    LET process_name == tasks[1].name \o "_inst"
        deadline == IF tasks[1].D < tasks[1].T
                    THEN <<[category |-> "TIMING", kind |-> "completing",
                            a |-> process_name, b |-> "",
                            bound |-> tasks[1].D]>>
                    ELSE <<>>
    IN <<[category |-> "SAFETY", kind |-> "deadlock", a |-> "", b |-> "",
          bound |-> 0],
         [category |-> "LIVENESS", kind |-> "reach", a |-> process_name,
          b |-> "", bound |-> 0],
         [category |-> "TIMING", kind |-> "ready", a |-> process_name,
          b |-> "", bound |-> tasks[1].T]>>
       \o deadline
       \o <<[category |-> "LIVENESS", kind |-> "leadsto", a |-> process_name,
             b |-> "", bound |-> 0]>>

\* LLMPropertyGenerator.generate_properties_with_llm: the properties of the
\* reply with their location names capitalized, or the fallback properties
generate_properties_with_llm(tasks, reply) ==
    IF reply.status = "ok" /\ reply.properties # <<>>
    THEN [k \in 1..Len(reply.properties) |->
            [reply.properties[k] EXCEPT !.b = FixCapitalization(@)]]
    ELSE _fallback_properties(tasks)

\* reply: NotCalled when the LLM is not used or preparing the task info
\* raised KeyError; an exception on the LLM path falls back to the templates
_stage4_property_generation(tasks, reply) ==
    IF reply.status \in {"not called", "bad formula"}
    THEN [properties |-> TemplateProperties(tasks),
          generation_method |-> "Deterministic Templates"]
    ELSE [properties |-> generate_properties_with_llm(tasks, reply),
          generation_method |-> "LLM"]

\* ---------------------------------------------- stage 5: model generation
\* the emitted XML by what the later stages read of it: the queries block
\* (replaced by the stage-4 properties) and whether the shared declarations
\* name cpu_owner
_stage5_uppaal_generation(tasks, properties) ==
    [queries |-> properties, task_count |-> Len(tasks), cpu_owner |-> TRUE]

\* ------------------------------------------------- stage 6: verifyta check
\* _simulate_verifyta: only a mutex formula can fail, when the model does
\* not mention cpu_owner
SimulatedCounterexample ==
    [trace |-> {"Task_0.Executing", "Task_1.Executing"},
     violation |-> "simultaneously"]

_simulate_verifyta(xml) ==
    LET failing == {k \in 1..Len(xml.queries) :
                        xml.queries[k].kind = "mutex" /\ ~xml.cpu_owner}
    IN [all_passed |-> failing = {},
        counterexamples |-> IF failing = {} THEN <<>>
                            ELSE [k \in 1..Cardinality(failing) |->
                                     SimulatedCounterexample],
        error |-> "none"]

\* what a verifier can hand back: a counterexample is read by stage 7
\* through its trace (a list of names) and its violation text
Counterexamples(tasks) ==
    {[trace |-> {_sanitize_name(tasks[i].name)}, violation |-> "deadline"] :
        i \in 1..Len(tasks)}
    \cup {[trace |-> {_sanitize_name(tasks[i].name)}, violation |-> "reachability"] :
        i \in 1..Len(tasks)}
    \cup {SimulatedCounterexample}
    \cup {[trace |-> {}, violation |-> "other"]}

\* the counterexample UppaalVerifier.verify hands back on a timeout or an
\* error of the verifier process: an empty trace
ErrorCounterexample == [trace |-> {}, violation |-> "other"]

\* UppaalVerifier.verify: the verifier ran ("none") and its verdict, or it
\* was not found, timed out, or failed
VerifierOutcomes(tasks) ==
    {[all_passed |-> TRUE, counterexamples |-> <<>>, error |-> "none"]}
    \cup {[all_passed |-> FALSE, counterexamples |-> ces, error |-> "none"] :
            ces \in SeqsUpTo(Counterexamples(tasks), MaxCE)}
    \cup {[all_passed |-> FALSE, counterexamples |-> <<>>,
           error |-> "verifyta.exe not found"]}
    \cup {[all_passed |-> FALSE, counterexamples |-> <<ErrorCounterexample>>,
           error |-> e] : e \in {"Timeout", "error"}}

\* ---------------------------------------------- stage 7: failure analysis
\* int(old_deadline * 1.2)
IntTimes1_2(d) == (12 * d) \div 10

RECURSIVE ApplyCounterexamples(_, _)
ApplyCounterexamples(task, ces) ==
    IF ces = <<>> THEN task
    ELSE LET ce == Head(ces)
             hit == _sanitize_name(task.name) \in ce.trace
                    /\ ce.violation = "deadline"
             next == IF hit THEN [task EXCEPT !.D = IntTimes1_2(task.D)]
                     ELSE task
         IN ApplyCounterexamples(next, Tail(ces))

\* a variant of _stage7_failure_analysis: a "simultaneously" violation
\* lowers the priority of every task ("adjust priorities as backup")
_stage7_failure_analysis_PriorityBackup(counterexamples, tasks) ==
    [i \in 1..Len(tasks) |->
        LET t == ApplyCounterexamples(tasks[i], counterexamples)
        IN IF \E k \in 1..Len(counterexamples) :
                  counterexamples[k].violation = "simultaneously"
           THEN [t EXCEPT !.P = t.P + 1]
           ELSE t]

_stage7_failure_analysis(counterexamples, tasks) ==
    [i \in 1..Len(tasks) |-> ApplyCounterexamples(tasks[i], counterexamples)]

\* ------------------------------------------------------------ run_pipeline
Inputs ==
    {Garbage} \cup {JsonDoc(ts) : ts \in SeqsUpTo(InputTasks, MaxTasks)}

\* no job and no request
NoJob == 0
WorkerIdle == [pc |-> "get", job |-> NoJob]
NoStatusRequest == [pc |-> "none", job |-> NoJob]
NoStatusReply == [job |-> NoJob, status |-> "none", submitted |-> FALSE,
                  stored |-> FALSE]

\* the module as imported and the worker started: empty queue and dicts
AsyncIdle ==
    /\ verification_queue = <<>>
    /\ verification_results = {}
    /\ active_verifications = {}
    /\ worker = WorkerIdle
    /\ queued_ids = {}
    /\ status_request = NoStatusRequest
    /\ status_reply = NoStatusReply

\* no earlier call on this instance
NoCall == [input |-> NoSpec, verifyta_path |-> FALSE, stage_history |-> <<>>,
           made |-> FALSE]

NoStage1 == [valid |-> FALSE, auto_fixed |-> FALSE, fixed_spec |-> NoSpec,
             normalized_spec |-> <<>>]
NoStage3 == [schedulable |-> FALSE, response_times |-> <<>>,
             fixed_spec |-> <<>>]
NoStage4 == [properties |-> <<>>, generation_method |-> "none"]
NoStage5 == [queries |-> <<>>, task_count |-> 0, cpu_owner |-> FALSE]
NoStage6 == [all_passed |-> FALSE, counterexamples |-> <<>>, error |-> "none"]

Init ==
    /\ pc = "loop"
    /\ iteration = 0
    /\ spec_input \in Inputs
    /\ current_spec = <<>>
    /\ verifyta_path \in BOOLEAN
    /\ stage_results = <<>>
    /\ stage1_result = NoStage1
    /\ stage3_result = NoStage3
    /\ stage4_result = NoStage4
    /\ stage5_result = NoStage5
    /\ stage6_result = NoStage6
    /\ result = NoResult
    /\ loc = <<>>
    /\ clk = <<>>
    /\ cpu_owner = -1
    /\ task_scheduled = <<>>
    /\ other_records = {}
    /\ other_entries = {}
    /\ first_call = NoCall
    /\ use_llm = FALSE
    /\ execution_time_ms = FALSE
    /\ llm_reply = NotCalled
    /\ files = {}
    /\ xml_path = -1
    /\ temp_file_used = FALSE
    /\ verify_exit = NoExit
    /\ verify_calls = 0
    /\ analyze_tasks = <<>>
    /\ analysis = NoAnalysis
    /\ stage7_spec = <<>>
    /\ AsyncIdle

\* _log_stage: append to the stages of the last iteration record
\* (the logged result by its deciding flag: valid, needs_fix, schedulable,
\* all_passed; TRUE for the stages that decide nothing)
_log_stage(log, stage_num, flag) ==
    [log EXCEPT ![Len(log)].stages =
        Append(@, [stage |-> stage_num, ok |-> flag])]

\* `while iteration < self.max_repair_iterations:` taken; a new record
BeginIteration ==
    /\ pc = "loop"
    /\ iteration < max_repair_iterations
    /\ iteration' = iteration + 1
    /\ stage_results' = Append(stage_results,
                               [iteration |-> iteration + 1, stages |-> <<>>])
    /\ pc' = "stage1"
    /\ UNCHANGED <<spec_input, current_spec, verifyta_path, stage1_result,
                   stage3_result, stage4_result, stage5_result, stage6_result,
                   result>>
    /\ UNCHANGED taVars
    /\ UNCHANGED callVars
    /\ UNCHANGED llmVars
    /\ UNCHANGED verifierVars
    /\ UNCHANGED analyzerVars
    /\ UNCHANGED <<repairVars, asyncVars>>

\* the loop condition fails: "Failed to converge"
ReturnNotConverged ==
    /\ pc = "loop"
    /\ ~(iteration < max_repair_iterations)
    /\ result' = [success |-> FALSE, converged |-> FALSE, iterations |-> iteration]
    /\ pc' = "returned"
    /\ UNCHANGED <<iteration, spec_input, current_spec, verifyta_path,
                   stage_results, stage1_result, stage3_result, stage4_result,
                   stage5_result, stage6_result>>
    /\ UNCHANGED taVars
    /\ UNCHANGED callVars
    /\ UNCHANGED llmVars
    /\ UNCHANGED verifierVars
    /\ UNCHANGED analyzerVars
    /\ UNCHANGED <<repairVars, asyncVars>>

Stage1 ==
    /\ pc = "stage1"
    /\ LET r == _stage1_input_validation(spec_input)
       IN /\ stage1_result' = r
          /\ stage_results' = _log_stage(stage_results, 1, r.valid)
          /\ IF ~r.valid
             THEN /\ spec_input' = r.fixed_spec
                  /\ pc' = "loop"
                  /\ UNCHANGED current_spec
             ELSE /\ current_spec' = r.normalized_spec
                  /\ pc' = "stage2"
                  /\ UNCHANGED spec_input
    /\ UNCHANGED <<iteration, verifyta_path, stage3_result, stage4_result,
                   stage5_result, stage6_result, result>>
    /\ UNCHANGED taVars
    /\ UNCHANGED callVars
    /\ UNCHANGED llmVars
    /\ UNCHANGED verifierVars
    /\ UNCHANGED analyzerVars
    /\ UNCHANGED <<repairVars, asyncVars>>

Stage2 ==
    /\ pc = "stage2"
    /\ LET r == _stage2_priority_validation(current_spec)
       IN /\ current_spec' = IF r.needs_fix THEN r.fixed_spec ELSE current_spec
          /\ stage_results' = _log_stage(stage_results, 2, r.needs_fix)
    \* current_spec is stage1_result["normalized_spec"], the object that
    \* was logged for stage 1
    /\ stage1_result' = [stage1_result EXCEPT
                            !.normalized_spec = TasksAfterStage2(current_spec)]
    /\ pc' = "stage3"
    /\ UNCHANGED <<iteration, spec_input, verifyta_path,
                   stage3_result, stage4_result, stage5_result, stage6_result,
                   result>>
    /\ UNCHANGED taVars
    /\ UNCHANGED callVars
    /\ UNCHANGED llmVars
    /\ UNCHANGED verifierVars
    /\ UNCHANGED analyzerVars
    /\ UNCHANGED <<repairVars, asyncVars>>

\* the analyzer raises on an empty task list and nothing catches it
Stage3Raises ==
    /\ pc = "stage3"
    /\ AnalyzeRaises(current_spec)
    /\ pc' = "raised"
    /\ UNCHANGED <<iteration, spec_input, current_spec, verifyta_path,
                   stage_results, stage1_result, stage3_result, stage4_result,
                   stage5_result, stage6_result, result>>
    /\ UNCHANGED taVars
    /\ UNCHANGED callVars
    /\ UNCHANGED llmVars
    /\ UNCHANGED verifierVars
    /\ UNCHANGED analyzerVars
    /\ UNCHANGED <<repairVars, asyncVars>>

Stage3 ==
    /\ pc = "stage3"
    /\ ~AnalyzeRaises(current_spec)
    /\ LET r == _stage3_schedulability_analysis(current_spec)
       IN /\ stage3_result' = r
          /\ stage_results' = _log_stage(stage_results, 3, r.schedulable)
          /\ IF ~r.schedulable
             THEN /\ current_spec' = r.fixed_spec
                  /\ spec_input' = JsonDoc(r.fixed_spec)
                  /\ pc' = "loop"
             ELSE /\ pc' = "stage4"
                  /\ UNCHANGED <<current_spec, spec_input>>
    /\ UNCHANGED <<iteration, verifyta_path, stage1_result, stage4_result,
                   stage5_result, stage6_result, result>>
    /\ UNCHANGED taVars
    /\ UNCHANGED callVars
    /\ UNCHANGED llmVars
    /\ UNCHANGED verifierVars
    /\ UNCHANGED analyzerVars
    /\ UNCHANGED <<repairVars, asyncVars>>

Stage4 ==
    /\ pc = "stage4"
    /\ \E reply \in (IF use_llm /\ execution_time_ms
                      THEN LlmReplies(current_spec) ELSE {NotCalled}) :
          /\ llm_reply' = reply
          /\ stage4_result' = _stage4_property_generation(current_spec, reply)
    /\ stage_results' = _log_stage(stage_results, 4, TRUE)
    /\ pc' = "stage5"
    /\ UNCHANGED <<iteration, spec_input, current_spec, verifyta_path,
                   stage1_result, stage3_result, stage5_result, stage6_result,
                   result>>
    /\ UNCHANGED taVars
    /\ UNCHANGED callVars
    /\ UNCHANGED <<use_llm, execution_time_ms>>
    /\ UNCHANGED verifierVars
    /\ UNCHANGED analyzerVars
    /\ UNCHANGED <<repairVars, asyncVars>>

Stage5 ==
    /\ pc = "stage5"
    /\ stage5_result' = _stage5_uppaal_generation(current_spec,
                                                  stage4_result.properties)
    /\ stage_results' = _log_stage(stage_results, 5, TRUE)
    /\ pc' = "stage6"
    /\ UNCHANGED <<iteration, spec_input, current_spec, verifyta_path,
                   stage1_result, stage3_result, stage4_result, stage6_result,
                   result>>
    /\ UNCHANGED taVars
    /\ UNCHANGED callVars
    /\ UNCHANGED llmVars
    /\ UNCHANGED verifierVars
    /\ UNCHANGED analyzerVars
    /\ UNCHANGED <<repairVars, asyncVars>>

\* a variant of Stage6: the verdict is not looked at
Stage6_IgnoresVerdict ==
    /\ pc = "stage6"
    /\ IF verifyta_path
       THEN stage6_result' \in VerifierOutcomes(current_spec)
       ELSE stage6_result' = _simulate_verifyta(stage5_result)
    /\ stage_results' = _log_stage(stage_results, 6, stage6_result'.all_passed)
    /\ pc' = "stage8"
    /\ UNCHANGED <<iteration, spec_input, current_spec, verifyta_path,
                   stage1_result, stage3_result, stage4_result, stage5_result,
                   result>>
    /\ UNCHANGED taVars
    /\ UNCHANGED callVars
    /\ UNCHANGED llmVars
    /\ UNCHANGED verifierVars
    /\ UNCHANGED analyzerVars
    /\ UNCHANGED <<repairVars, asyncVars>>

\* _stage6_verifyta_check: the verifier when a path is configured, the
\* built-in simulation otherwise
Stage6 ==
    /\ pc = "stage6"
    /\ IF verifyta_path
       THEN stage6_result' \in VerifierOutcomes(current_spec)
       ELSE stage6_result' = _simulate_verifyta(stage5_result)
    /\ stage_results' = _log_stage(stage_results, 6, stage6_result'.all_passed)
    /\ pc' = IF stage6_result'.all_passed THEN "stage8" ELSE "stage7"
    /\ UNCHANGED <<iteration, spec_input, current_spec, verifyta_path,
                   stage1_result, stage3_result, stage4_result, stage5_result,
                   result>>
    /\ UNCHANGED taVars
    /\ UNCHANGED callVars
    /\ UNCHANGED llmVars
    /\ UNCHANGED verifierVars
    /\ UNCHANGED analyzerVars
    /\ UNCHANGED <<repairVars, asyncVars>>

Stage7 ==
    /\ pc = "stage7"
    /\ LET repaired == _stage7_failure_analysis(stage6_result.counterexamples,
                                                current_spec)
       IN /\ current_spec' = repaired
          /\ spec_input' = JsonDoc(repaired)
    /\ stage_results' = _log_stage(stage_results, 7, TRUE)
    /\ pc' = "loop"
    /\ UNCHANGED <<iteration, verifyta_path, stage1_result, stage3_result,
                   stage4_result, stage5_result, stage6_result, result>>
    /\ UNCHANGED taVars
    /\ UNCHANGED callVars
    /\ UNCHANGED llmVars
    /\ UNCHANGED verifierVars
    /\ UNCHANGED analyzerVars
    /\ UNCHANGED <<repairVars, asyncVars>>

\* stages 8 and 9 generate text from the final spec, then "PIPELINE CONVERGED"
Stage8 ==
    /\ pc = "stage8"
    /\ stage_results' = _log_stage(stage_results, 8, TRUE)
    /\ pc' = "stage9"
    /\ UNCHANGED <<iteration, spec_input, current_spec, verifyta_path,
                   stage1_result, stage3_result, stage4_result, stage5_result,
                   stage6_result, result>>
    /\ UNCHANGED taVars
    /\ UNCHANGED callVars
    /\ UNCHANGED llmVars
    /\ UNCHANGED verifierVars
    /\ UNCHANGED analyzerVars
    /\ UNCHANGED <<repairVars, asyncVars>>

Stage9Return ==
    /\ pc = "stage9"
    /\ stage_results' = _log_stage(stage_results, 9, TRUE)
    /\ result' = [success |-> TRUE, converged |-> TRUE, iterations |-> iteration]
    /\ pc' = "returned"
    /\ UNCHANGED <<iteration, spec_input, current_spec, verifyta_path,
                   stage1_result, stage3_result, stage4_result, stage5_result,
                   stage6_result>>
    /\ UNCHANGED taVars
    /\ UNCHANGED callVars
    /\ UNCHANGED llmVars
    /\ UNCHANGED verifierVars
    /\ UNCHANGED analyzerVars
    /\ UNCHANGED <<repairVars, asyncVars>>

Next ==
    \/ BeginIteration
    \/ ReturnNotConverged
    \/ Stage1
    \/ Stage2
    \/ Stage3Raises
    \/ Stage3
    \/ Stage4
    \/ Stage5
    \/ Stage6
    \/ Stage7
    \/ Stage8
    \/ Stage9Return

Spec == Init /\ [][Next]_vars

\* ================================================================ claims
\* every (stage, flag) entry logged in iteration record k
Logged(k) == {stage_results[k].stages[i] : i \in 1..Len(stage_results[k].stages)}

\* iteration k reached the verifier and it answered all_passed
VerifierPassedIn(k) == [stage |-> 6, ok |-> TRUE] \in Logged(k)
\* iteration k reached the verifier and it answered not all_passed
VerifierFailedIn(k) == [stage |-> 6, ok |-> FALSE] \in Logged(k)

Terminal == {"returned", "raised"}
\* the positions at which one of the actions is enabled
Running == {"loop", "stage1", "stage2", "stage3", "stage4", "stage5",
            "stage6", "stage7", "stage8", "stage9"}

\* steps left in the current iteration, by position
StepsLeft ==
    CASE pc \in Terminal -> 0
      [] pc = "loop"   -> 1
      [] pc = "stage9" -> 2
      [] pc = "stage8" -> 3
      [] pc = "stage7" -> 4
      [] pc = "stage6" -> 5
      [] pc = "stage5" -> 6
      [] pc = "stage4" -> 7
      [] pc = "stage3" -> 8
      [] pc = "stage2" -> 9
      [] pc = "stage1" -> 10

\* a bound on the steps the run can still take
Rank == (max_repair_iterations - iteration) * 13 + StepsLeft

C1_Counts ==
    /\ iteration \in 0..max_repair_iterations
    /\ Len(stage_results) = iteration
    /\ Rank >= 0
    /\ pc \in Terminal \cup Running
    /\ pc = "returned" =>
          /\ result.iterations = iteration
          /\ result.iterations \in 1..max_repair_iterations
          /\ (~result.converged) <=>
                /\ iteration = max_repair_iterations
                /\ ~VerifierPassedIn(iteration)

\* C1: for every input and every verifier behaviour run_pipeline starts at
\* most max_repair_iterations (10) iterations and then returns: every step
\* brings it closer to its end (the rank strictly decreases and stays
\* non-negative), no run ends by an error escaping, a returned result
\* reports an iteration count in 1..10, and it is a not-converged result
\* exactly when the count is 10 and the tenth iteration did not converge.
C1_BoundedIterations ==
    [](C1_Counts /\ pc # "raised") /\ [][Rank' < Rank]_vars

\* how a run has ended
Converged == pc = "returned" /\ result.converged
Diverged  == pc = "returned" /\ ~result.converged

\* C2: a run ends Converged iff the verifier outcome of its last iteration
\* is all_passed; it ends Diverged iff the iteration count reached
\* max_repair_iterations and no iteration had all_passed.
C2_ConvergedIffAllPassed ==
    pc \in Terminal =>
        /\ Converged <=> VerifierPassedIn(iteration)
        /\ Converged => stage6_result.all_passed
        /\ Diverged <=>
              /\ iteration = max_repair_iterations
              /\ \A k \in 1..iteration : ~VerifierPassedIn(k)

\* a run that converged after an iteration in which the verifier failed
C2_Witness ==
    /\ pc = "returned"
    /\ result.converged
    /\ iteration >= 2
    /\ \E k \in 1..(iteration - 1) : VerifierFailedIn(k)

\* a repair step hands the TaskSet it was given back unchanged and the run
\* still has iterations left
RepairStep == pc \in {"stage3", "stage7"} /\ pc' = "loop"
UnchangedRepair ==
    /\ RepairStep
    /\ current_spec' = current_spec
    /\ iteration < max_repair_iterations

\* C3: after a repair step (stage 3 or stage 7) that returns the TaskSet
\* unchanged the controller does not go back to the loop head for another
\* iteration: it ends the run as not converged at once.
C3_AntiLivelock ==
    [][UnchangedRepair => (pc' = "returned" /\ ~result'.converged)]_vars

\* C4: whenever stage 3 declares the TaskSet unschedulable, the repaired
\* TaskSet differs from the analysed one in some period or deadline.
C4_RepairChangesTaskSet ==
    [][(pc = "stage3" /\ pc' = "loop") =>
        \E i \in 1..Len(current_spec) :
            \/ current_spec'[i].T # current_spec[i].T
            \/ current_spec'[i].D # current_spec[i].D]_vars

\* the response time the analyzer computes for task i of a TaskSet
AnalyzerResponse(ts, i) ==
    LET validated == [k \in 1..Len(ts) |-> ValidatedTask(ts[k])]
    IN _calculate_response_time(validated[i], validated)

\* sum of C_i / T_i <= 1, over the common denominator
TotalUtilizationWithinOne(ts) ==
    LET den == SeqProd([k \in 1..Len(ts) |-> ts[k].T])
    IN SeqSum([k \in 1..Len(ts) |-> ts[k].C * (den \div ts[k].T)]) <= den


\* C6: on the TaskSet stage 3 analyses (priorities 1..n by ascending period)
\* the tasks counted as interference for task i are exactly those with a
\* numerically lower priority value, so the priority-1 task has none.
C6_LowerNumericInterferes ==
    pc = "stage3" =>
        \A i \in 1..Len(current_spec) :
            InterferenceSet(current_spec[i], current_spec)
                = {j \in 1..Len(current_spec) :
                        current_spec[j].P < current_spec[i].P}

\* C7: the TaskSet leaving stage 2 has priorities that are a permutation of
\* 1..n, and a task with a shorter period has a smaller priority number.
C7_RmsPriorities ==
    pc = "stage3" =>
        /\ {current_spec[i].P : i \in 1..Len(current_spec)} = 1..Len(current_spec)
        /\ \A i, j \in 1..Len(current_spec) :
              current_spec[i].T < current_spec[j].T
                  => current_spec[i].P < current_spec[j].P

\* stage 2 has just rewritten the priorities of two tasks that came in with
\* the longer period first
C7_Witness ==
    /\ pc = "stage3"
    /\ [stage |-> 2, ok |-> TRUE] \in Logged(iteration)
    /\ Len(current_spec) = 2
    /\ stage1_result.normalized_spec[1].T > stage1_result.normalized_spec[2].T
    /\ current_spec[1].T < current_spec[2].T

\* C10: every TaskSet stage 1 accepts has C <= D <= T and C > 0 for every
\* task.
C10_AcceptedIsWellFormed ==
    (pc = "stage2" /\ stage1_result.valid) =>
        \A i \in 1..Len(current_spec) :
            /\ current_spec[i].C <= current_spec[i].D
            /\ current_spec[i].D <= current_spec[i].T
            /\ current_spec[i].C > 0

\* =========================================== the emitted timed-automata model
\* One template instance per task of the TaskSet the model is emitted for
\* (current_spec), locations Idle -> Ready -> Scheduled -> Executing ->
\* Completing -> Done -> Ready, a clock x per template, and the shared
\* declarations cpu_owner and task_scheduled[].  Time advances in unit steps.
Templates == 1..Len(current_spec)

\* clocks are compared with constants up to MaxTaPeriod only
ClockCap == MaxTaPeriod + 1

\* the TaskSets a model is emitted for: what stage 2 hands on for n tasks
\* with implicit deadlines and unit execution time
EmittedTaskSets ==
    {_stage2_priority_validation(
        [i \in 1..TaTasks |->
            [name |-> IndexName(i), T |-> f[i], D |-> f[i], C |-> 1, P |-> 1]]
     ).fixed_spec : f \in [1..TaTasks -> 1..MaxTaPeriod]}

InitTA ==
    /\ pc = "verifyta"
    /\ iteration = 1
    /\ spec_input = NoSpec
    /\ current_spec \in EmittedTaskSets
    /\ verifyta_path = TRUE
    /\ stage_results = <<>>
    /\ stage1_result = NoStage1
    /\ stage3_result = NoStage3
    /\ stage4_result = NoStage4
    /\ stage5_result = NoStage5
    /\ stage6_result = NoStage6
    /\ result = NoResult
    /\ loc = [i \in 1..TaTasks |-> "Idle"]
    /\ clk = [i \in 1..TaTasks |-> 0]
    /\ cpu_owner = -1
    /\ task_scheduled = [i \in 1..TaTasks |-> FALSE]
    /\ other_records = {}
    /\ other_entries = {}
    /\ first_call = NoCall
    /\ use_llm = FALSE
    /\ execution_time_ms = FALSE
    /\ llm_reply = NotCalled
    /\ files = {}
    /\ xml_path = -1
    /\ temp_file_used = FALSE
    /\ verify_exit = NoExit
    /\ verify_calls = 0
    /\ analyze_tasks = <<>>
    /\ analysis = NoAnalysis
    /\ stage7_spec = <<>>
    /\ AsyncIdle

\* the tasks with a higher priority than task i (lower number = higher)
HigherPriority(i) == {j \in Templates : current_spec[j].P < current_spec[i].P}

\* a dispatch guard that looks at the task's own slot only
DispatchGuard_OwnSlotOnly(i) == task_scheduled[i]

\* guard of Ready -> Scheduled: the task's own slot is set and no slot of a
\* higher-priority task is
DispatchGuard(i) ==
    /\ task_scheduled[i]
    /\ \A j \in HigherPriority(i) : ~task_scheduled[j]

\* an acquisition that does not look at cpu_owner
AcquireGuard_Unguarded(i) == TRUE

\* guard of Scheduled -> Executing: the CPU is free
AcquireGuard(i) == cpu_owner = -1

\* invariant of a location on the clock value v
LocationInvariant(i, l, v) ==
    CASE l = "Ready"     -> v <= current_spec[i].T
      [] l = "Executing" -> v <= current_spec[i].D /\ v <= current_spec[i].C
      [] OTHER           -> TRUE

\* Idle -> Ready: guard x == 0, reset x; the task asks to be scheduled
TaRelease(i) ==
    /\ pc = "verifyta"
    /\ loc[i] = "Idle"
    /\ clk[i] = 0
    /\ loc' = [loc EXCEPT ![i] = "Ready"]
    /\ clk' = [clk EXCEPT ![i] = 0]
    /\ task_scheduled' = [task_scheduled EXCEPT ![i] = TRUE]
    /\ UNCHANGED <<cpu_owner, pipelineVars, current_spec,
                   callVars, llmVars, verifierVars, analyzerVars,
                   repairVars, asyncVars>>

\* Ready -> Scheduled on the scheduling channel
TaDispatch(i) ==
    /\ pc = "verifyta"
    /\ loc[i] = "Ready"
    /\ DispatchGuard(i)
    /\ loc' = [loc EXCEPT ![i] = "Scheduled"]
    /\ task_scheduled' = [task_scheduled EXCEPT ![i] = FALSE]
    /\ UNCHANGED <<clk, cpu_owner, pipelineVars, current_spec,
                   callVars, llmVars, verifierVars, analyzerVars,
                   repairVars, asyncVars>>

\* Scheduled -> Executing: cpu_owner := index of the task
TaAcquire(i) ==
    /\ pc = "verifyta"
    /\ loc[i] = "Scheduled"
    /\ AcquireGuard(i)
    /\ LocationInvariant(i, "Executing", clk[i])
    /\ loc' = [loc EXCEPT ![i] = "Executing"]
    /\ cpu_owner' = i - 1
    /\ UNCHANGED <<clk, task_scheduled, pipelineVars, current_spec,
                   callVars, llmVars, verifierVars, analyzerVars,
                   repairVars, asyncVars>>

\* Executing -> Completing: guard x >= C
TaFinish(i) ==
    /\ pc = "verifyta"
    /\ loc[i] = "Executing"
    /\ clk[i] >= current_spec[i].C
    /\ loc' = [loc EXCEPT ![i] = "Completing"]
    /\ UNCHANGED <<clk, cpu_owner, task_scheduled, pipelineVars, current_spec,
                   callVars, llmVars, verifierVars, analyzerVars,
                   repairVars, asyncVars>>

\* Completing -> Done: cpu_owner := -1
TaComplete(i) ==
    /\ pc = "verifyta"
    /\ loc[i] = "Completing"
    /\ loc' = [loc EXCEPT ![i] = "Done"]
    /\ cpu_owner' = -1
    /\ UNCHANGED <<clk, task_scheduled, pipelineVars, current_spec,
                   callVars, llmVars, verifierVars, analyzerVars,
                   repairVars, asyncVars>>

\* Done -> Ready: guard x >= T, reset x; the task asks to be scheduled
TaNextPeriod(i) ==
    /\ pc = "verifyta"
    /\ loc[i] = "Done"
    /\ clk[i] >= current_spec[i].T
    /\ loc' = [loc EXCEPT ![i] = "Ready"]
    /\ clk' = [clk EXCEPT ![i] = 0]
    /\ task_scheduled' = [task_scheduled EXCEPT ![i] = TRUE]
    /\ UNCHANGED <<cpu_owner, pipelineVars, current_spec,
                   callVars, llmVars, verifierVars, analyzerVars,
                   repairVars, asyncVars>>

\* one time unit passes: allowed while every location invariant still holds
TaTick ==
    /\ pc = "verifyta"
    /\ \A i \in Templates : LocationInvariant(i, loc[i], clk[i] + 1)
    /\ \E i \in Templates : clk[i] < ClockCap
    /\ clk' = [i \in Templates |->
                 IF clk[i] < ClockCap THEN clk[i] + 1 ELSE ClockCap]
    /\ UNCHANGED <<loc, cpu_owner, task_scheduled, pipelineVars, current_spec,
                   callVars, llmVars, verifierVars, analyzerVars,
                   repairVars, asyncVars>>

NextTA ==
    \/ \E i \in Templates : TaRelease(i)
    \/ \E i \in Templates : TaDispatch(i)
    \/ \E i \in Templates : TaAcquire(i)
    \/ \E i \in Templates : TaFinish(i)
    \/ \E i \in Templates : TaComplete(i)
    \/ \E i \in Templates : TaNextPeriod(i)
    \/ TaTick

SpecTA == InitTA /\ [][NextTA]_vars

\* the templates that hold the CPU: between Scheduled -> Executing and
\* Completing -> Done
HoldsCpu(i) == loc[i] \in {"Executing", "Completing"}

C8_State ==
    /\ Cardinality({i \in Templates : loc[i] = "Executing"}) <= 1
    /\ cpu_owner = -1 <=> (\A i \in Templates : ~HoldsCpu(i))
    /\ \A i \in Templates : HoldsCpu(i) <=> cpu_owner = i - 1

C8_Step ==
    \A i \in Templates :
        /\ (loc[i] = "Scheduled" /\ loc'[i] = "Executing") => cpu_owner' = i - 1
        /\ (loc[i] = "Completing" /\ loc'[i] = "Done") => cpu_owner' = -1
        /\ cpu_owner' # cpu_owner =>
              \E j \in Templates : loc'[j] # loc[j] /\ loc'[j] \in {"Executing", "Done"}

\* C8: in the emitted model at most one template is in Executing, cpu_owner
\* is -1 exactly when no template holds the CPU, and cpu_owner changes only
\* by a task taking it on Scheduled -> Executing (to its own index) or
\* giving it back on Completing -> Done (to -1).
C8_MutualExclusion == [](C8_State) /\ [][C8_Step]_vars

\* one task executes and owns the CPU while another, already dispatched,
\* waits in Scheduled for it
C8_Witness ==
    /\ pc = "verifyta"
    /\ \E i, j \in Templates :
          /\ loc[i] = "Executing" /\ cpu_owner = i - 1
          /\ loc[j] = "Scheduled"

\* the lowest-priority template
Lowest == CHOOSE i \in Templates : \A j \in Templates : current_spec[j].P <= current_spec[i].P

\* C9: a template takes Ready -> Scheduled only when no higher-priority
\* template is waiting in Ready; for the lowest-priority of the three tasks
\* the slots of both higher-priority tasks are not set at that step.
C9_PriorityDispatch ==
    [][\A i \in Templates :
        (loc[i] = "Ready" /\ loc'[i] = "Scheduled") =>
            /\ \A j \in Templates :
                  current_spec[j].P < current_spec[i].P => loc[j] # "Ready"
            /\ i = Lowest =>
                  \A j \in Templates \ {i} : ~task_scheduled[j]]_vars

\* the lowest-priority task has been dispatched after both higher-priority
\* tasks, which now execute or wait for the CPU
C9_Witness ==
    /\ pc = "verifyta"
    /\ Len(current_spec) = TaTasks
    /\ loc[Lowest] = "Scheduled"
    /\ \A j \in Templates \ {Lowest} : loc[j] \in {"Scheduled", "Executing"}

\* C11: no stage aborts the run: from every position of a run every step
\* leads to another position of the run or to run_pipeline returning a
\* result; no error escapes run_pipeline, also not on an empty task list.
C11_NoStageAborts ==
    [][(pc \in Running) => (pc' \in (Running \cup {"returned"}))]_vars

\* the verifier ran and reported a violated reachability property or a
\* violation of unknown kind
UnrepairableVerdict ==
    /\ stage6_result.error = "none"
    /\ ~stage6_result.all_passed
    /\ \E k \in 1..Len(stage6_result.counterexamples) :
          stage6_result.counterexamples[k].violation \in {"reachability", "other"}

\* C12: when the verifier reports a violated reachability property or a
\* violation of unknown kind, the step that handles the verdict ends the run
\* (with a status of its own, Unrepairable) and no further iteration starts.
C12_UnrepairableEndsRun ==
    [][(pc = "stage7" /\ UnrepairableVerdict) => (pc' = "returned")]_vars

\* the last answer of the verifier in this run was an error of the verifier
\* itself: binary not found, timeout, or a failed verifier process
VerifierError == stage6_result.error # "none"

\* C13: after a verifier error the run ends at the step that handles the
\* outcome, and the verifier is never about to be invoked again in a run
\* whose last verifier outcome was such an error.
C13_NoRetryAfterVerifierError ==
    /\ [](pc = "stage6" => ~VerifierError)
    /\ [][(pc = "stage7" /\ VerifierError) => (pc' = "returned")]_vars

\* ================================ calls that share one pipeline instance
\* The HTTP route keeps one AutonomousPipeline in a module global and calls
\* run_pipeline on it from every request thread.  The run modelled by the
\* actions above is one such call; a concurrent call is modelled by what it
\* does to the shared self.stage_results.
MaxOtherSteps == 2
\* the concurrent call makes its steps while this call is in one of its
\* first MaxOverlap iterations
MaxOverlap == 1

\* the inputs of the calls that are run next to another call
ConcInputs ==
    {Garbage, JsonDoc(<<>>)}
    \cup {JsonDoc(<<t>>) : t \in {c \in CompleteTasks :
                                    c.name = "Task_A" /\ c.P = 1}}

InitConc == Init /\ spec_input \in ConcInputs

\* the concurrent call executes self.stage_results.append({...}) at the head
\* of one of its iterations
OtherRunBeginsIteration ==
    /\ pc \in Running
    /\ iteration <= MaxOverlap
    /\ Cardinality(other_records) + Cardinality(other_entries) < MaxOtherSteps
    /\ stage_results' = Append(stage_results,
                               [iteration |-> Cardinality(other_records) + 1,
                                stages |-> <<>>])
    /\ other_records' = other_records \cup {Len(stage_results) + 1}
    /\ UNCHANGED <<pc, iteration, spec_input, current_spec, verifyta_path,
                   stage1_result, stage3_result, stage4_result, stage5_result,
                   stage6_result, result, other_entries, first_call>>
    /\ UNCHANGED taVars
    /\ UNCHANGED llmVars
    /\ UNCHANGED verifierVars
    /\ UNCHANGED analyzerVars
    /\ UNCHANGED <<repairVars, asyncVars>>

\* the concurrent call executes _log_stage: the entry goes to
\* self.stage_results[-1], whichever call appended that record
OtherRunLogsStage ==
    /\ pc \in Running
    /\ iteration <= MaxOverlap
    /\ other_records # {}
    /\ Cardinality(other_records) + Cardinality(other_entries) < MaxOtherSteps
    /\ stage_results' = _log_stage(stage_results,
                                   Cardinality(other_entries) + 1, TRUE)
    /\ other_entries' = other_entries \cup
          {<<Len(stage_results),
             Len(stage_results[Len(stage_results)].stages) + 1>>}
    /\ UNCHANGED <<pc, iteration, spec_input, current_spec, verifyta_path,
                   stage1_result, stage3_result, stage4_result, stage5_result,
                   stage6_result, result, other_records, first_call>>
    /\ UNCHANGED taVars
    /\ UNCHANGED llmVars
    /\ UNCHANGED verifierVars
    /\ UNCHANGED analyzerVars
    /\ UNCHANGED <<repairVars, asyncVars>>

NextConc ==
    \/ Next
    \/ OtherRunBeginsIteration
    \/ OtherRunLogsStage

SpecConc == InitConc /\ [][NextConc]_vars

\* C14: with a concurrent call on the shared instance, every stage entry
\* sits in an iteration record appended by the call that logged it, and the
\* stage history a call returns holds only the iterations of that call.
C14_RunsIndependent ==
    /\ \A k \in 1..Len(stage_results) :
          \A i \in 1..Len(stage_results[k].stages) :
              (<<k, i>> \in other_entries) <=> (k \in other_records)
    /\ pc = "returned" => other_records = {}

\* ------------------------------------------- successive calls, one instance
\* a first call on a fresh instance, whose input is remembered
InitSeq ==
    /\ pc = "loop"
    /\ iteration = 0
    /\ spec_input \in ConcInputs
    /\ current_spec = <<>>
    /\ verifyta_path \in BOOLEAN
    /\ stage_results = <<>>
    /\ stage1_result = NoStage1
    /\ stage3_result = NoStage3
    /\ stage4_result = NoStage4
    /\ stage5_result = NoStage5
    /\ stage6_result = NoStage6
    /\ result = NoResult
    /\ loc = <<>>
    /\ clk = <<>>
    /\ cpu_owner = -1
    /\ task_scheduled = <<>>
    /\ other_records = {}
    /\ other_entries = {}
    /\ first_call = [NoCall EXCEPT !.input = spec_input,
                                   !.verifyta_path = verifyta_path]
    /\ use_llm = FALSE
    /\ execution_time_ms = FALSE
    /\ llm_reply = NotCalled
    /\ files = {}
    /\ xml_path = -1
    /\ temp_file_used = FALSE
    /\ verify_exit = NoExit
    /\ verify_calls = 0
    /\ analyze_tasks = <<>>
    /\ analysis = NoAnalysis
    /\ stage7_spec = <<>>
    /\ AsyncIdle

\* after the first call has returned, run_pipeline is called again on the
\* same instance with the same input: the locals start afresh,
\* self.stage_results is what the first call left
CallAgain ==
    /\ pc = "returned"
    /\ ~first_call.made
    /\ first_call' = [first_call EXCEPT !.stage_history = stage_results,
                                        !.made = TRUE]
    /\ pc' = "loop"
    /\ iteration' = 0
    /\ spec_input' = first_call.input
    /\ current_spec' = <<>>
    /\ stage1_result' = NoStage1
    /\ stage3_result' = NoStage3
    /\ stage4_result' = NoStage4
    /\ stage5_result' = NoStage5
    /\ stage6_result' = NoStage6
    /\ result' = NoResult
    /\ UNCHANGED <<verifyta_path, stage_results, other_records, other_entries>>
    /\ UNCHANGED taVars
    /\ UNCHANGED llmVars
    /\ UNCHANGED verifierVars
    /\ UNCHANGED analyzerVars
    /\ UNCHANGED <<repairVars, asyncVars>>

NextSeq ==
    \/ Next
    \/ CallAgain

SpecSeq == InitSeq /\ [][NextSeq]_vars

\* C15: the second of two calls with the same input and the same
\* deterministic verifier (the built-in simulation) returns the stage
\* history the first call returned.
C15_StageLogDeterministic ==
    (pc = "returned" /\ first_call.made /\ ~verifyta_path)
        => stage_results = first_call.stage_history

\* the verifier reported exactly one counterexample, a deadline violation
DeadlineVerdict ==
    /\ Len(stage6_result.counterexamples) = 1
    /\ stage6_result.counterexamples[1].violation = "deadline"

\* task i is the task the reported deadline violation names
Violator(i) ==
    _sanitize_name(current_spec[i].name) \in stage6_result.counterexamples[1].trace

\* ceil(1.2 * d) for a positive integer d
CeilTimes1_2(d) == CeilDiv(12 * d, 10)

\* C16: the counterexample repair for a deadline violation of task i sets
\* D_i' = ceil(1.2 * D_i) and raises T_i to D_i' if D_i' > T_i, so that
\* D_i' <= T_i'; every other task is left unchanged.
C16_DeadlineRepair ==
    [][(pc = "stage7" /\ DeadlineVerdict) =>
        \A i \in 1..Len(current_spec) :
            IF Violator(i)
            THEN /\ current_spec'[i].D = CeilTimes1_2(current_spec[i].D)
                 /\ current_spec'[i].T =
                        IF current_spec'[i].D > current_spec[i].T
                        THEN current_spec'[i].D ELSE current_spec[i].T
                 /\ current_spec'[i].D <= current_spec'[i].T
            ELSE current_spec'[i] = current_spec[i]]_vars

\* C17: when stage 3 repairs an unschedulable TaskSet, every task whose
\* response time R exceeds its deadline gets D' = ceil(1.1 * R) and, if
\* D' > T, T' = D', so that R <= D' <= T'; every task with R <= D is left
\* unchanged.
C17_ScheduleRepairRule ==
    [][(pc = "stage3" /\ pc' = "loop") =>
        \A i \in 1..Len(current_spec) :
            LET R == AnalyzerResponse(current_spec, i)
                t == current_spec[i]
                d == CeilDiv(11 * R, 10)
            IN IF R > t.D
               THEN /\ current_spec'[i].D = d
                    /\ current_spec'[i].T = (IF d > t.T THEN d ELSE t.T)
                    /\ R <= current_spec'[i].D
                    /\ current_spec'[i].D <= current_spec'[i].T
               ELSE current_spec'[i] = t]_vars

\* C18: when the analysed TaskSet has U > 1, the stage-3 repair scales the
\* period of every task up (all by one factor of at least 1.1, rounded up)
\* and leaves every execution time unchanged.
C18_PeriodScaling ==
    [][(pc = "stage3" /\ pc' = "loop"
            /\ ~TotalUtilizationWithinOne(current_spec)) =>
        \A i \in 1..Len(current_spec) :
            /\ current_spec'[i].T > current_spec[i].T
            /\ current_spec'[i].C = current_spec[i].C]_vars

\* the verifier ran and every violation it reported is a mutex violation
MutexOnly(verdict) ==
    /\ ~verdict.all_passed
    /\ verdict.error = "none"
    /\ Len(verdict.counterexamples) >= 1
    /\ \A k \in 1..Len(verdict.counterexamples) :
          verdict.counterexamples[k].violation = "simultaneously"

\* the positions between the repair of a verdict and the next verdict
BeforeNextVerdict == {"loop", "stage1", "stage2", "stage3", "stage4",
                      "stage5", "stage6"}

\* while the run retries after a mutex-only verdict, the TaskSet it works on
\* and re-emits a model for is the one that was verified
C19_RetrySameTaskSet ==
    (MutexOnly(stage6_result) /\ pc \in BeforeNextVerdict) =>
        /\ spec_input = JsonDoc(current_spec)
        /\ pc \in {"stage4", "stage5", "stage6"} => stage3_result.schedulable
        /\ pc = "stage6" =>
              stage5_result = _stage5_uppaal_generation(
                                  current_spec, TemplateProperties(current_spec))

\* the repair of a mutex-only verdict changes no task; a passing verdict in
\* the iteration after it ends the run converged on that same TaskSet
C19_Step ==
    /\ (pc = "stage7" /\ MutexOnly(stage6_result)) =>
          (current_spec' = current_spec /\ pc' = "loop")
    /\ (pc = "stage6" /\ MutexOnly(stage6_result) /\ stage6_result'.all_passed) =>
          (current_spec' = current_spec /\ pc' = "stage8")
    /\ (pc \in {"stage8", "stage9"}) =>
          /\ current_spec' = current_spec
          /\ pc' = "returned" => (result'.converged /\ result'.iterations = iteration)

\* C19: a mutex violation leaves the TaskSet unchanged: the next iteration
\* re-emits a model for the same TaskSet, and when the verifier is satisfied
\* in that iteration the run converges in it, its final TaskSet being the
\* one verified in the iteration before.
C19_MutexLeavesTaskSet == [](C19_RetrySameTaskSet) /\ [][C19_Step]_vars

\* iteration 2 has re-emitted the model of a two-task set after the verifier
\* reported only a mutex violation in iteration 1
C19_Witness ==
    /\ pc = "stage6"
    /\ iteration = 2
    /\ MutexOnly(stage6_result)
    /\ VerifierFailedIn(1)
    /\ Len(current_spec) = 2

\* the number of generated properties of one kind
CountKind(properties, kind) ==
    Cardinality({k \in 1..Len(properties) : properties[k].kind = kind})

\* C20: for a TaskSet of n tasks the templates generate exactly 1 deadlock,
\* n deadline, n reachability, n(n-1)/2 mutex and n leads-to properties
\* (Task_i.Done --> Task_i.Ready); a single task gets 4 properties.
C20_TemplatePropertyCount ==
    (pc = "stage5") =>
        LET n == Len(current_spec)
            properties == stage4_result.properties
        IN /\ stage4_result.generation_method = "Deterministic Templates"
           /\ CountKind(properties, "deadlock") = 1
           /\ CountKind(properties, "deadline") = n
           /\ CountKind(properties, "reach") = n
           /\ CountKind(properties, "mutex") = (n * (n - 1)) \div 2
           /\ CountKind(properties, "leadsto") = n
           /\ Len(properties) = 1 + 3 * n + (n * (n - 1)) \div 2
           /\ (n = 1 => Len(properties) = 4)

\* ------------------------------------------------ runs with the LLM enabled
\* AutonomousPipeline(use_llm=...) on input documents whose tasks carry the
\* key 'execution_time_ms' or not
InitLLM ==
    /\ pc = "loop"
    /\ iteration = 0
    /\ spec_input \in ConcInputs
    /\ current_spec = <<>>
    /\ verifyta_path \in BOOLEAN
    /\ stage_results = <<>>
    /\ stage1_result = NoStage1
    /\ stage3_result = NoStage3
    /\ stage4_result = NoStage4
    /\ stage5_result = NoStage5
    /\ stage6_result = NoStage6
    /\ result = NoResult
    /\ loc = <<>>
    /\ clk = <<>>
    /\ cpu_owner = -1
    /\ task_scheduled = <<>>
    /\ other_records = {}
    /\ other_entries = {}
    /\ first_call = NoCall
    /\ use_llm \in BOOLEAN
    /\ execution_time_ms \in BOOLEAN
    /\ llm_reply = NotCalled
    /\ files = {}
    /\ xml_path = -1
    /\ temp_file_used = FALSE
    /\ verify_exit = NoExit
    /\ verify_calls = 0
    /\ analyze_tasks = <<>>
    /\ analysis = NoAnalysis
    /\ stage7_spec = <<>>
    /\ AsyncIdle

SpecLLM == InitLLM /\ [][Next]_vars


\* the location names of the task templates
Registry == {"Idle", "Ready", "Scheduled", "Executing", "Completing", "Done"}

\* the location names a property's formula refers to
Locations(property) ==
    CASE property.kind = "deadlock" -> {}
      [] property.kind \in {"deadline", "mutex"} -> {"Executing"}
      [] property.kind = "reach" -> {"Done"}
      [] property.kind = "ready" -> {"Ready"}
      [] property.kind = "completing" -> {"Completing"}
      [] property.kind = "leadsto" -> {"Done", "Ready"}
      [] property.kind = "llm" -> {property.b}

\* what stage 4 returns on the template path
TemplateResult ==
    [properties |-> TemplateProperties(current_spec),
     generation_method |-> "Deterministic Templates"]

\* C21: stage 4 uses the property list of the LLM only if every location
\* name its formulas refer to is a registry location (after the
\* capitalization fix); when a formula of the reply fails that check, the
\* stage returns the template list.
C21_LlmListChecked ==
    (pc = "stage5") =>
        /\ (stage4_result.generation_method = "LLM") =>
              \A k \in 1..Len(stage4_result.properties) :
                  Locations(stage4_result.properties[k]) \subseteq Registry
        /\ (\E k \in 1..Len(llm_reply.properties) :
                FixCapitalization(llm_reply.properties[k].b) \notin Registry) =>
              stage4_result = TemplateResult

\* the stage hands on the LLM's list (the positive half of C21, which holds)
C21_Accepted ==
    /\ pc = "stage5"
    /\ stage4_result.generation_method = "LLM"
    /\ llm_reply.status = "ok"
    /\ llm_reply.properties # <<>>
    /\ \A k \in 1..Len(stage4_result.properties) :
          Locations(stage4_result.properties[k]) \subseteq Registry


\* C22: with the LLM enabled but unreachable or failing, stage 4 produces
\* the property list it produces with the LLM disabled (the template list),
\* and the model emitted from it is the same.
C22_SameWithoutLlm ==
    (use_llm /\ llm_reply.status # "ok") =>
        /\ (pc \in {"stage5", "stage6", "stage7", "stage8", "stage9"}) =>
              stage4_result = TemplateResult
        /\ (pc \in {"stage6", "stage7", "stage8", "stage9"}) =>
              stage5_result = _stage5_uppaal_generation(
                                  current_spec, TemplateProperties(current_spec))


\* ------------------------------------------------- UppaalVerifier.verify
\* calls of verify in one behaviour
MaxVerifyCalls == 3
MaxHalfMs == 6      \* largest deadline of a stage-7 call, in half milliseconds
MaxJobs == 2        \* job ids the async routes hand out
\* the path a caller supplies as xml_path
CallerPath == 0

\* what subprocess.run comes to: verifyta's verdict, a timeout, another error
VerifytaRuns ==
    {[kind |-> "returned", error |-> "none", all_passed |-> b] : b \in BOOLEAN}
    \cup {[kind |-> "returned", error |-> e, all_passed |-> FALSE] :
            e \in {"Timeout", "error"}}

\* one call of verify, from entry to exit.  found: verifyta_path is set and
\* exists; supplied: the caller passes xml_path; written: how opening and
\* writing the model file goes; run: what subprocess.run comes to;
\* unlinked: os.unlink in the finally block succeeds
Verify ==
    /\ pc = "verify"
    /\ verify_calls < MaxVerifyCalls
    /\ verify_calls' = verify_calls + 1
    /\ \E found \in BOOLEAN, supplied \in BOOLEAN,
          written \in {"ok", "open fails", "write fails"},
          run \in VerifytaRuns, unlinked \in BOOLEAN :
          IF ~found
          THEN /\ xml_path' = IF supplied THEN CallerPath ELSE -1
               /\ temp_file_used' = FALSE
               /\ files' = files
               /\ verify_exit' = [kind |-> "returned",
                                  error |-> "verifyta.exe not found",
                                  all_passed |-> FALSE]
          ELSE LET path == IF supplied THEN CallerPath ELSE verify_calls + 1
                   \* tempfile.NamedTemporaryFile(delete=False) creates it
                   created == IF supplied THEN files ELSE files \cup {path}
               IN /\ xml_path' = path
                  /\ temp_file_used' = ~supplied
                  /\ CASE written = "open fails" /\ supplied ->
                            /\ files' = created
                            /\ verify_exit' = [kind |-> "raised",
                                               error |-> "open",
                                               all_passed |-> FALSE]
                       [] written = "write fails" ->
                            /\ files' = created \cup {path}
                            /\ verify_exit' = [kind |-> "raised",
                                               error |-> "write",
                                               all_passed |-> FALSE]
                       [] OTHER ->
                            /\ files' = IF ~supplied /\ unlinked
                                        THEN created \ {path}
                                        ELSE created \cup {path}
                            /\ verify_exit' = run
    /\ UNCHANGED <<pipelineVars, current_spec, taVars, callVars, llmVars,
                   analyzerVars,
                   repairVars, asyncVars>>

InitVerify ==
    /\ pc = "verify"
    /\ iteration = 0
    /\ spec_input = NoSpec
    /\ current_spec = <<>>
    /\ verifyta_path = TRUE
    /\ stage_results = <<>>
    /\ stage1_result = NoStage1
    /\ stage3_result = NoStage3
    /\ stage4_result = NoStage4
    /\ stage5_result = NoStage5
    /\ stage6_result = NoStage6
    /\ result = NoResult
    /\ loc = <<>>
    /\ clk = <<>>
    /\ cpu_owner = -1
    /\ task_scheduled = <<>>
    /\ other_records = {}
    /\ other_entries = {}
    /\ first_call = NoCall
    /\ use_llm = FALSE
    /\ execution_time_ms = FALSE
    /\ llm_reply = NotCalled
    /\ files \in SUBSET {CallerPath}
    /\ xml_path = -1
    /\ temp_file_used = FALSE
    /\ verify_exit = NoExit
    /\ verify_calls = 0
    /\ analyze_tasks = <<>>
    /\ analysis = NoAnalysis
    /\ stage7_spec = <<>>
    /\ AsyncIdle

NextVerify == Verify

SpecVerify == InitVerify /\ [][NextVerify]_vars

\* C23: a call of verify without a caller-supplied path leaves no temporary
\* model file behind on any exit path (return, timeout, verifier error,
\* failure while writing the model); a call with a caller-supplied xml_path
\* deletes no file.
C23_TempFileRemoved ==
    [][(verify_calls' = verify_calls + 1) =>
          /\ temp_file_used' => (xml_path' \notin files')
          /\ (~temp_file_used') => (files \subseteq files')]_vars


\* ------------------------------------- SchedulabilityAnalyzer on its own
\* execution time and period of the tasks handed to analyze
AnalyzerShapes ==
    {<<1, 1>>, <<1, 2>>, <<1, 5>>, <<23, 30>>, <<1, 30>>, <<1, LongTime>>}

\* the task at position i of a list: deadline = period, or every numeric
\* key falsy (0 or missing)
AnalyzerTasksAt(i) ==
    LET name == <<"Task_A", "Task-B", "Task_C">>[i]
    IN {[name |-> name, T |-> s[2], D |-> s[2], C |-> s[1], P |-> p] :
            s \in AnalyzerShapes, p \in 1..MaxAnalyzerTasks}
       \cup {[name |-> name, T |-> 0, D |-> 0, C |-> 0, P |-> 0]}

AnalyzerLists ==
    UNION {{ts \in [1..n -> UNION {AnalyzerTasksAt(i) : i \in 1..n}] :
                \A i \in 1..n : ts[i] \in AnalyzerTasksAt(i)} :
           n \in 0..MaxAnalyzerTasks}

\* the caller's task records after analyze has run: every write of analyze
\* goes to validated_task = task.copy(), the sort builds a new list
TasksAfterAnalyze_InPlace(tasks) ==
    [i \in 1..Len(tasks) |-> ValidatedTask(tasks[i])]

TasksAfterAnalyze(tasks) == tasks

InitAnalyzer ==
    /\ pc = "analyze"
    /\ iteration = 0
    /\ spec_input = NoSpec
    /\ current_spec = <<>>
    /\ verifyta_path = FALSE
    /\ stage_results = <<>>
    /\ stage1_result = NoStage1
    /\ stage3_result = NoStage3
    /\ stage4_result = NoStage4
    /\ stage5_result = NoStage5
    /\ stage6_result = NoStage6
    /\ result = NoResult
    /\ loc = <<>>
    /\ clk = <<>>
    /\ cpu_owner = -1
    /\ task_scheduled = <<>>
    /\ other_records = {}
    /\ other_entries = {}
    /\ first_call = NoCall
    /\ use_llm = FALSE
    /\ execution_time_ms = FALSE
    /\ llm_reply = NotCalled
    /\ files = {}
    /\ xml_path = -1
    /\ temp_file_used = FALSE
    /\ verify_exit = NoExit
    /\ verify_calls = 0
    /\ analyze_tasks \in AnalyzerLists
    /\ analysis = NoAnalysis
    /\ stage7_spec = <<>>
    /\ AsyncIdle

\* analyze(tasks) returns
Analyze ==
    /\ pc = "analyze"
    /\ ~AnalyzeRaises(analyze_tasks)
    /\ analysis' = analyze(analyze_tasks)
    /\ analyze_tasks' = TasksAfterAnalyze(analyze_tasks)
    /\ pc' = "analyzed"
    /\ UNCHANGED <<iteration, spec_input, verifyta_path, stage_results,
                   stage1_result, stage3_result, stage4_result, stage5_result,
                   stage6_result, result, current_spec>>
    /\ UNCHANGED <<taVars, callVars, llmVars, verifierVars, repairVars, asyncVars>>

\* analyze([]) raises ZeroDivisionError
AnalyzeFails ==
    /\ pc = "analyze"
    /\ AnalyzeRaises(analyze_tasks)
    /\ pc' = "raised"
    /\ UNCHANGED <<iteration, spec_input, verifyta_path, stage_results,
                   stage1_result, stage3_result, stage4_result, stage5_result,
                   stage6_result, result, current_spec>>
    /\ UNCHANGED <<taVars, callVars, llmVars, verifierVars, analyzerVars,
                   repairVars, asyncVars>>

NextAnalyzer ==
    \/ Analyze
    \/ AnalyzeFails

SpecAnalyzer == InitAnalyzer /\ [][NextAnalyzer]_vars

\* the list analyze works on
Validated == [i \in 1..Len(analyze_tasks) |-> ValidatedTask(analyze_tasks[i])]

\* the loop of _calculate_response_time runs all its iterations: no iterate
\* passed the convergence check or the divergence check
ReachesCap(task, all_tasks) ==
    ResponseLoop(task, all_tasks, [R |-> task.C, exit |-> "none"],
                 RtIterationCap).exit = "none"

\* C24: a task whose response-time iteration reaches the cap of 100
\* iterations without a fixed point is reported unschedulable, whatever the
\* last iterate: it is in failed_tasks and is_schedulable is false.
C24_CapMeansUnschedulable ==
    (pc = "analyzed") =>
        \A i \in 1..Len(Validated) :
            ReachesCap(Validated[i], Validated) =>
                /\ Validated[i].name \in analysis.failed_tasks
                /\ ~analysis.is_schedulable


RECURSIVE Gcd(_, _)
Gcd(a, b) == IF b = 0 THEN a ELSE Gcd(b, a % b)

\* total_util > ll_bound = n(2^(1/n) - 1), as (U/n + 1)^n > 2 on the exact
\* fraction U = num / den in lowest terms (ll_bound <= 1, so U > 1 exceeds
\* it)
ExceedsLiuLayland(tasks) ==
    LET n == Len(tasks)
        g == Gcd(UtilNum(tasks), UtilDen(tasks))
        num == UtilNum(tasks) \div g
        den == UtilDen(tasks) \div g
    IN \/ num > den
       \/ SeqProd([k \in 1..n |-> num + n * den])
             > 2 * SeqProd([k \in 1..n |-> n * den])

\* every response time within its deadline
AllWithinDeadline(tasks) ==
    \A i \in 1..Len(tasks) :
        _calculate_response_time(tasks[i], tasks) <= tasks[i].D

C25_LiuLaylandAdvisory ==
    (pc = "analyzed") =>
        /\ (/\ ExceedsLiuLayland(Validated)
            /\ UtilNum(Validated) <= UtilDen(Validated)
            /\ AllWithinDeadline(Validated)) => analysis.is_schedulable
        /\ (~analysis.is_schedulable) =>
              \/ ~AllWithinDeadline(Validated)
              \/ UtilNum(Validated) > UtilDen(Validated)


\* C26: analyze and the response-time computation never modify the task
\* list or the task records they are given: after a call, returning or
\* raising, the input TaskSet equals what it was before the call.
C26_AnalyzerPure ==
    [][(pc = "analyze") => (analyze_tasks' = analyze_tasks)]_vars

\* analyze has returned for a list in which it replaced falsy values by
\* defaults in its own copies
C26_Witness ==
    /\ pc = "analyzed"
    /\ Len(analyze_tasks) >= 2
    /\ Validated # analyze_tasks
    /\ analysis = analyze(Validated)


\* C27: the TaskSet of a run is replaced, never mutated in place: the
\* priority-fix stage leaves the TaskSet it receives unchanged, so the
\* result of stage 1 that was appended to the stage log (its normalized
\* spec) is not altered by any later stage.
C27_LoggedResultNeverAltered ==
    [][(pc # "stage1") => (stage1_result' = stage1_result)]_vars


\* the task names of the model in lexicographic (code point) order:
\* '-' < '1' < '2' < 'A' < '_'
NamesInOrder == <<"Task-B", "Task_1", "Task_2", "Task_3", "Task_4", "Task_A">>

NameIndex(name) == CHOOSE k \in 1..Len(NamesInOrder) : NamesInOrder[k] = name

\* C28: tasks with equal period receive priorities in lexicographic order
\* of their names, so the priorities do not depend on the input order.
C28_TiesByName ==
    (pc = "stage3") =>
        \A i, j \in 1..Len(current_spec) :
            (/\ current_spec[i].T = current_spec[j].T
             /\ NameIndex(current_spec[i].name) < NameIndex(current_spec[j].name))
                => current_spec[i].P < current_spec[j].P


\* a period or an execution time that is absent or non-positive
Unusable(value) == value = Absent \/ value <= 0

\* C29: when a task's period or execution time is absent or non-positive,
\* stage 1 substitutes T = 100 and C = T/2: after one auto-fix pass every
\* task has T > 0 and C > 0 and the next stage 1 accepts the specification.
C29_AutoDefaultRescue ==
    [][(pc = "stage1" /\ stage1_result'.auto_fixed) =>
          LET given == spec_input.tasks
              fixed == spec_input'.tasks
          IN /\ spec_input'.kind = "json"
             /\ Len(fixed) = Len(given)
             /\ \A i \in 1..Len(given) :
                   /\ fixed[i].T > 0
                   /\ fixed[i].C > 0
                   /\ Unusable(given[i].T) => fixed[i].T = DefaultPeriod
                   /\ Unusable(given[i].C) => fixed[i].C = fixed[i].T \div 2
             /\ _stage1_input_validation(spec_input').valid]_vars


\* ------------------------------------------------ runs on INI documents
\* the sections of an INI text: a name and the keys it has
IniSections ==
    [name : {"Task_A", "Task-B", "Sensor"}, T : {Absent, MaxTime},
     D : {Absent}, C : {Absent, 1}, P : {Absent, MaxTasks}]

\* INI texts of up to MaxTasks sections with distinct names
IniDocs ==
    {[kind |-> "ini", tasks |-> ss] :
        ss \in {q \in SeqsUpTo(IniSections, MaxTasks) :
                   \A i, j \in 1..Len(q) : q[i].name = q[j].name => i = j}}

InitIni ==
    /\ pc = "loop"
    /\ iteration = 0
    /\ spec_input \in IniDocs
    /\ current_spec = <<>>
    /\ verifyta_path \in BOOLEAN
    /\ stage_results = <<>>
    /\ stage1_result = NoStage1
    /\ stage3_result = NoStage3
    /\ stage4_result = NoStage4
    /\ stage5_result = NoStage5
    /\ stage6_result = NoStage6
    /\ result = NoResult
    /\ loc = <<>>
    /\ clk = <<>>
    /\ cpu_owner = -1
    /\ task_scheduled = <<>>
    /\ other_records = {}
    /\ other_entries = {}
    /\ first_call = NoCall
    /\ use_llm = FALSE
    /\ execution_time_ms = FALSE
    /\ llm_reply = NotCalled
    /\ files = {}
    /\ xml_path = -1
    /\ temp_file_used = FALSE
    /\ verify_exit = NoExit
    /\ verify_calls = 0
    /\ analyze_tasks = <<>>
    /\ analysis = NoAnalysis
    /\ stage7_spec = <<>>
    /\ AsyncIdle

SpecIni == InitIni /\ [][Next]_vars

\* C30: parsing the section format yields exactly one task per section of
\* the input, named after the section, whatever the section name is; no
\* section is dropped.
C30_OneTaskPerSection ==
    [][(pc = "stage1" /\ spec_input.kind = "ini") =>
          LET sections == spec_input.tasks
              parsed == stage1_result'.normalized_spec
          IN /\ Len(parsed) = Len(sections)
             /\ \A i \in 1..Len(sections) : parsed[i].name = sections[i].name]_vars


\* ------------------------- runs with a verifier that satisfies everything
\* a task as (T, D, C) with no priority key
StubTask(name, T, D, C) == [name |-> name, T |-> T, D |-> D, C |-> C, P |-> Absent]

\* seed scenarios S1, S2 and S4
SeedS1 == JsonDoc(<<StubTask("Task_A", 100, 100, 10)>>)
SeedS2 == JsonDoc(<<StubTask("Task_A", 20, 15, 12), StubTask("Task_C", 50, 40, 30)>>)
SeedS4 == JsonDoc(<<StubTask("Task_A", 10, 10, 9), StubTask("Task_C", 10, 10, 9)>>)

\* ten tasks with C <= D <= T and U > 1
TenTasks ==
    JsonDoc(<<StubTask("T1", 12, 11, 2), StubTask("T2", 8, 2, 2),
              StubTask("T3", 11, 8, 6), StubTask("T4", 12, 4, 4),
              StubTask("T5", 6, 5, 1), StubTask("T6", 5, 4, 4),
              StubTask("T7", 11, 6, 5), StubTask("T8", 9, 6, 4),
              StubTask("T9", 11, 5, 4), StubTask("T10", 7, 1, 1)>>)

\* documents of up to MaxTasks tasks with C <= D <= T <= MaxTime, or with
\* a deadline of 0
SmallStubDocs ==
    LET shapes == {t \in [name : {"Task_A", "Task_C"}, T : 1..MaxTime,
                          D : 0..MaxTime, C : 1..MaxTime, P : {Absent}] :
                      /\ t.C <= t.T
                      /\ t.D = 0 \/ (t.C <= t.D /\ t.D <= t.T)}
    IN {JsonDoc(q) : q \in SeqsUpTo(shapes, MaxTasks)}

StubInputs == {SeedS1, SeedS2, SeedS4, TenTasks} \cup SmallStubDocs

InitStub ==
    /\ pc = "loop"
    /\ iteration = 0
    /\ spec_input \in StubInputs
    /\ current_spec = <<>>
    /\ verifyta_path = TRUE
    /\ stage_results = <<>>
    /\ stage1_result = NoStage1
    /\ stage3_result = NoStage3
    /\ stage4_result = NoStage4
    /\ stage5_result = NoStage5
    /\ stage6_result = NoStage6
    /\ result = NoResult
    /\ loc = <<>>
    /\ clk = <<>>
    /\ cpu_owner = -1
    /\ task_scheduled = <<>>
    /\ other_records = {}
    /\ other_entries = {}
    /\ first_call = NoCall
    /\ use_llm = FALSE
    /\ execution_time_ms = FALSE
    /\ llm_reply = NotCalled
    /\ files = {}
    /\ xml_path = -1
    /\ temp_file_used = FALSE
    /\ verify_exit = NoExit
    /\ verify_calls = 0
    /\ analyze_tasks = <<>>
    /\ analysis = NoAnalysis
    /\ stage7_spec = <<>>
    /\ AsyncIdle

\* stage 6 with a verifier that reports every property satisfied
Stage6Satisfied == Stage6 /\ stage6_result'.all_passed

\* stage 7 is never entered when the verifier satisfies every property
NextStub ==
    \/ BeginIteration
    \/ ReturnNotConverged
    \/ Stage1
    \/ Stage2
    \/ Stage3Raises
    \/ Stage3
    \/ Stage4
    \/ Stage5
    \/ Stage6Satisfied
    \/ Stage8
    \/ Stage9Return

SpecStub == InitStub /\ [][NextStub]_vars

\* the run is on seed scenario S2 (no step changes an execution time)
OnSeedS2 ==
    /\ spec_input.kind = "json"
    /\ Len(spec_input.tasks) = 2
    /\ spec_input.tasks[1].C = 12
    /\ spec_input.tasks[2].C = 30

C31_State ==
    /\ pc # "raised"
    /\ iteration <= 3
    /\ (iteration = 1 /\ pc = "stage3") =>
          /\ Len(current_spec) = 2
          /\ current_spec[1].T = 20 /\ current_spec[1].P = 1
          /\ current_spec[2].T = 50 /\ current_spec[2].P = 2
    /\ (iteration = 1 /\ pc = "loop") =>
          [stage |-> 3, ok |-> FALSE] \in Logged(1)
    /\ (pc = "returned") =>
          /\ result.converged
          /\ result.iterations <= 3
          /\ ExactUtilizationAtMostOne(current_spec)

\* C31: seed scenario S2 with a verifier that reports every property
\* satisfied: the T=20 task gets priority 1 and the T=50 task priority 2,
\* iteration 1 reports the set unschedulable, and the run converges within
\* at most 3 iterations with final U <= 1 (every step brings the run closer
\* to its return, and it returns converged).
C31_SeedS2 ==
    [](OnSeedS2 => C31_State) /\ [][OnSeedS2 => (Rank' < Rank)]_vars

\* the run on S2 has converged in its second iteration on the TaskSet the
\* first repair produced
C31_Witness ==
    /\ pc = "returned"
    /\ result.converged
    /\ result.iterations = 2
    /\ [stage |-> 3, ok |-> FALSE] \in Logged(1)
    /\ current_spec = <<[name |-> "Task_A", T |-> 47, D |-> 47, C |-> 12, P |-> 1],
                        [name |-> "Task_C", T |-> 50, D |-> 40, C |-> 30, P |-> 2]>>


\* a document with U > 1 in which every task has C <= D <= T
OverUtilizedDoc(doc) ==
    /\ doc.kind = "json"
    /\ doc.tasks # <<>>
    /\ \A i \in 1..Len(doc.tasks) :
          /\ 1 <= doc.tasks[i].C
          /\ doc.tasks[i].C <= doc.tasks[i].D
          /\ doc.tasks[i].D <= doc.tasks[i].T
    /\ ~ExactUtilizationAtMostOne(doc.tasks)

\* the names and execution times of a document, which no stage changes
NameAndExecution(doc) ==
    {<<doc.tasks[i].name, doc.tasks[i].C>> : i \in 1..Len(doc.tasks)}

\* the run was started on an input with U > 1 and C <= D <= T: every input
\* with the names, execution times and task count of the working document
\* is one
OverUtilizedInput ==
    /\ spec_input.kind = "json"
    /\ LET origins == {d \in StubInputs :
                          /\ d.kind = "json"
                          /\ Len(d.tasks) = Len(spec_input.tasks)
                          /\ NameAndExecution(d) = NameAndExecution(spec_input)}
       IN /\ origins # {}
          /\ \A d \in origins : OverUtilizedDoc(d)

\* C34: for every input with U > 1 in which every task has C <= D <= T, and
\* a verifier that reports every property satisfied, the repair iterations
\* reach a TaskSet the analyzer accepts and the run ends converged
\* (success = true) with final total utilization <= 1.
C34_OverUtilizedRepaired ==
    (OverUtilizedInput /\ pc \in Terminal) =>
        /\ pc = "returned"
        /\ result.success
        /\ result.converged
        /\ stage3_result.schedulable
        /\ ExactUtilizationAtMostOne(current_spec)


\* C32: stages are idempotent: stage 1 applied to a specification it has
\* accepted as valid returns the same specification as valid, and stage 2
\* applied to the TaskSet it has just fixed reports that no fix is needed
\* and changes no priority.
C32_StagesIdempotent ==
    [][/\ (pc = "stage1" /\ stage1_result'.valid) =>
             LET accepted == stage1_result'.normalized_spec
                 again == _stage1_input_validation(JsonDoc(accepted))
             IN /\ again.valid
                /\ ~again.auto_fixed
                /\ again.normalized_spec = accepted
       /\ (pc = "stage2") =>
             LET fixed == current_spec'
                 again == _stage2_priority_validation(fixed)
             IN /\ ~again.needs_fix
                /\ again.fixed_spec = fixed
                /\ TasksAfterStage2(fixed) = fixed]_vars

\* stage 1 has accepted a document in which it filled a priority, and stage
\* 2 has just rewritten the priorities of two tasks of equal period
C32_Witness ==
    /\ pc = "stage3"
    /\ iteration = 1
    /\ spec_input.kind = "json"
    /\ \E i \in 1..Len(spec_input.tasks) : spec_input.tasks[i].P = Absent
    /\ [stage |-> 1, ok |-> TRUE] \in Logged(1)
    /\ [stage |-> 2, ok |-> TRUE] \in Logged(1)
    /\ Len(current_spec) = 2
    /\ current_spec[1].T = current_spec[2].T
    /\ current_spec[1].P = 1 /\ current_spec[2].P = 2


\* the pairs of tasks of which the one with the shorter period has the
\* numerically higher priority value
InvertedPairs(tasks) ==
    {pair \in SUBSET (1..Len(tasks)) :
        \E i, j \in pair :
            /\ pair = {i, j}
            /\ tasks[i].T < tasks[j].T
            /\ tasks[i].P > tasks[j].P}

\* priorities 1..n by ascending period, as the RMS stage assigns them
RmsAssigned(tasks) == tasks # <<>> /\ TasksAfterStage2(tasks) = tasks

\* C33: a priority inversion is diagnosed exactly for the pairs in which the
\* task with the shorter period has the numerically higher priority value;
\* so a TaskSet with priorities assigned by the RMS stage gets no
\* priority-inversion warning from the analyzer.
C33_InversionDiagnosis ==
    (pc = "analyzed") =>
        /\ {{w[1], w[2]} : w \in analysis.priority_warnings}
              = InvertedPairs(Validated)
        /\ RmsAssigned(Validated) => analysis.priority_warnings = {}


\* the records of the log that this call appended
OwnRecords == {k \in 1..Len(stage_results) : k \notin other_records}

\* the entries of iteration record k are in order
OrderedRecord(k) ==
    LET stages == stage_results[k].stages
    IN /\ stages # <<>> => stages[1].stage = 1
       /\ \A i \in 1..(Len(stages) - 1) : stages[i].stage < stages[i + 1].stage
       /\ \A i \in 1..Len(stages) :
             /\ stages[i].stage = 7 =>
                   (i > 1 /\ stages[i - 1] = [stage |-> 6, ok |-> FALSE])
             /\ (stages[i].stage \in {8, 9} /\ k \in OwnRecords) =>
                   /\ \A later \in OwnRecords : later <= k
                   /\ pc \in {"stage9", "returned"}
                   /\ (pc = "returned" => result.converged)

\* the iteration indices of this call's records are 1, 2, ... in order
IndicesWithoutGaps ==
    \A k \in OwnRecords :
        stage_results[k].iteration = Cardinality({j \in OwnRecords : j <= k})

\* every record and every entry of the log stays as it was appended
AppendOnly ==
    /\ Len(stage_results') >= Len(stage_results)
    /\ \A k \in 1..Len(stage_results) :
          /\ stage_results'[k].iteration = stage_results[k].iteration
          /\ Len(stage_results'[k].stages) >= Len(stage_results[k].stages)
          /\ SubSeq(stage_results'[k].stages, 1, Len(stage_results[k].stages))
                = stage_results[k].stages

\* C35: the StageLog is append-only and ordered: in every iteration record
\* the stage numbers are strictly increasing starting at 1; a stage-7 entry
\* comes only directly after a stage-6 entry whose all_passed is false;
\* stage-8 and stage-9 entries are only in the last iteration of a
\* converged run; and the iteration indices are 1, 2, ... without gaps.
C35_StageLogOrdered ==
    [](/\ \A k \in 1..Len(stage_results) : OrderedRecord(k)
       /\ IndicesWithoutGaps)
    /\ [][AppendOnly]_vars


\* C36: in every iteration the verifier is invoked only after the analyzer
\* has declared that iteration's TaskSet schedulable; hence the final
\* TaskSet of every converged run has U <= 1, R_i <= D_i for every task,
\* and priorities 1..n in ascending-period order.
C36_VerifiedMeansSchedulable ==
    /\ (pc = "stage6") =>
          /\ stage3_result.schedulable
          /\ [stage |-> 3, ok |-> TRUE] \in Logged(iteration)
    /\ (pc = "returned" /\ result.converged) =>
          /\ ExactUtilizationAtMostOne(current_spec)
          /\ \A i \in 1..Len(current_spec) :
                _calculate_response_time(current_spec[i], current_spec)
                    <= current_spec[i].D
          /\ RmsAssigned(current_spec)


\* ------------------- stage 7 on deadlines that are not whole milliseconds
\* JSON numbers may have a fraction; stage 1 accepts them.  Here a deadline
\* is counted in half milliseconds.
\* int(old_deadline * 1.2) for old_deadline = h / 2, in half milliseconds
IntTimes1_2Halves(h) == 2 * ((6 * h) \div 10)

HalfMsTasks == [name : TaskNames, deadline_halves : 1..MaxHalfMs]

\* the loop over counterexamples for one task
RECURSIVE ApplyCounterexamplesHalves(_, _)
ApplyCounterexamplesHalves(task, ces) ==
    IF ces = <<>> THEN task
    ELSE LET ce == Head(ces)
             hit == _sanitize_name(task.name) \in ce.trace
                    /\ ce.violation = "deadline"
             next == IF hit
                     THEN [task EXCEPT !.deadline_halves = IntTimes1_2Halves(@)]
                     ELSE task
         IN ApplyCounterexamplesHalves(next, Tail(ces))

\* the counterexamples a verifier can hand back for these tasks
CounterexamplesHalves(tasks) ==
    {[trace |-> {_sanitize_name(tasks[i].name)}, violation |-> v] :
        i \in 1..Len(tasks), v \in {"deadline", "simultaneously"}}

InitRepair ==
    /\ pc = "stage7 call"
    /\ iteration = 0
    /\ spec_input = NoSpec
    /\ current_spec = <<>>
    /\ verifyta_path = FALSE
    /\ stage_results = <<>>
    /\ stage1_result = NoStage1
    /\ stage3_result = NoStage3
    /\ stage4_result = NoStage4
    /\ stage5_result = NoStage5
    /\ stage6_result = NoStage6
    /\ result = NoResult
    /\ loc = <<>>
    /\ clk = <<>>
    /\ cpu_owner = -1
    /\ task_scheduled = <<>>
    /\ other_records = {}
    /\ other_entries = {}
    /\ first_call = NoCall
    /\ use_llm = FALSE
    /\ execution_time_ms = FALSE
    /\ llm_reply = NotCalled
    /\ files = {}
    /\ xml_path = -1
    /\ temp_file_used = FALSE
    /\ verify_exit = NoExit
    /\ verify_calls = 0
    /\ analyze_tasks = <<>>
    /\ analysis = NoAnalysis
    /\ stage7_spec \in SeqsUpTo(HalfMsTasks, MaxTasks)
    /\ AsyncIdle

\* _stage7_failure_analysis(counterexamples, spec)
Stage7Call ==
    /\ pc = "stage7 call"
    /\ \E counterexamples \in SeqsUpTo(CounterexamplesHalves(stage7_spec), MaxCE) :
          stage7_spec' =
              [i \in 1..Len(stage7_spec) |->
                  ApplyCounterexamplesHalves(stage7_spec[i], counterexamples)]
    /\ pc' = "stage7 returned"
    /\ UNCHANGED <<iteration, spec_input, verifyta_path, stage_results,
                   stage1_result, stage3_result, stage4_result, stage5_result,
                   stage6_result, result, current_spec>>
    /\ UNCHANGED <<taVars, callVars, llmVars, verifierVars, analyzerVars, asyncVars>>

NextRepair == Stage7Call

SpecRepair == InitRepair /\ [][NextRepair]_vars

\* the TaskSet `after` has, for every task of `before`, a task of the same
\* name and execution time whose period and deadline are not smaller, and
\* no other task
SameTasksGrown(before, after) ==
    /\ Len(after) = Len(before)
    /\ \E perm \in [1..Len(before) -> 1..Len(before)] :
          /\ \A i, j \in 1..Len(before) : perm[i] = perm[j] => i = j
          /\ \A i \in 1..Len(before) :
                /\ after[perm[i]].name = before[i].name
                /\ after[perm[i]].C = before[i].C
                /\ after[perm[i]].T >= before[i].T
                /\ after[perm[i]].D >= before[i].D

\* C37: across any sequence of repairs in a run (schedulability repairs and
\* counterexample repairs) the set of task names and every task's execution
\* time stay unchanged, and no task's period or deadline ever decreases:
\* each repair step keeps them so, in place, and so does every other step
\* once the run has a TaskSet.
C37_RepairsOnlyGrow ==
    [][/\ (pc \in {"stage3", "stage7"} /\ pc' = "loop") =>
             /\ SameTasksGrown(current_spec, current_spec')
             /\ \A i \in 1..Len(current_spec) :
                   current_spec'[i].name = current_spec[i].name
       /\ (current_spec # <<>>) =>
             SameTasksGrown(current_spec, current_spec')
       /\ (pc = "stage7 call") =>
             /\ Len(stage7_spec') = Len(stage7_spec)
             /\ \A i \in 1..Len(stage7_spec) :
                   /\ stage7_spec'[i].name = stage7_spec[i].name
                   /\ stage7_spec'[i].deadline_halves
                         >= stage7_spec[i].deadline_halves]_vars


\* ============================== routes/async_routes.py: asynchronous jobs
\* job ids are f"job_{int(time.time() * 1000)}"; submissions of the model
\* fall into different milliseconds
JobIds == 1..MaxJobs

InitAsync ==
    /\ pc = "routes"
    /\ iteration = 0
    /\ spec_input = NoSpec
    /\ current_spec = <<>>
    /\ verifyta_path = FALSE
    /\ stage_results = <<>>
    /\ stage1_result = NoStage1
    /\ stage3_result = NoStage3
    /\ stage4_result = NoStage4
    /\ stage5_result = NoStage5
    /\ stage6_result = NoStage6
    /\ result = NoResult
    /\ loc = <<>>
    /\ clk = <<>>
    /\ cpu_owner = -1
    /\ task_scheduled = <<>>
    /\ other_records = {}
    /\ other_entries = {}
    /\ first_call = NoCall
    /\ use_llm = FALSE
    /\ execution_time_ms = FALSE
    /\ llm_reply = NotCalled
    /\ files = {}
    /\ xml_path = -1
    /\ temp_file_used = FALSE
    /\ verify_exit = NoExit
    /\ verify_calls = 0
    /\ analyze_tasks = <<>>
    /\ analysis = NoAnalysis
    /\ stage7_spec = <<>>
    /\ AsyncIdle

\* the variables the async routes never touch
AsyncUnchanged ==
    /\ UNCHANGED <<pipelineVars, current_spec>>
    /\ UNCHANGED <<taVars, callVars, llmVars, verifierVars, analyzerVars, repairVars>>

\* POST /verify_async: 400 without code, 500 when extraction or generation
\* raises, else the job is put on the queue and its id returned as queued
verify_async ==
    /\ pc = "routes"
    /\ \E outcome \in {"no code", "error", "queued"} :
          IF outcome = "queued"
          THEN \E job_id \in JobIds \ queued_ids :
                  /\ verification_queue' = Append(verification_queue, job_id)
                  /\ queued_ids' = queued_ids \cup {job_id}
          ELSE UNCHANGED <<verification_queue, queued_ids>>
    /\ UNCHANGED <<verification_results, active_verifications, worker,
                   status_request, status_reply>>
    /\ AsyncUnchanged

\* verification_worker: job = verification_queue.get(timeout=1)
WorkerGet ==
    /\ worker.pc = "get"
    /\ verification_queue # <<>>
    /\ worker' = [pc |-> "set active", job |-> Head(verification_queue)]
    /\ verification_queue' = Tail(verification_queue)
    /\ UNCHANGED <<verification_results, active_verifications, queued_ids,
                   status_request, status_reply>>
    /\ AsyncUnchanged

\* active_verifications[job_id] = {'status': 'running', ...}
WorkerSetActive ==
    /\ worker.pc = "set active"
    /\ active_verifications' = active_verifications \cup {worker.job}
    /\ worker' = [worker EXCEPT !.pc = "verify"]
    /\ UNCHANGED <<verification_queue, verification_results, queued_ids,
                   status_request, status_reply>>
    /\ AsyncUnchanged

\* verifier.verify_uppaal_async(...): it returns, or it raises and the
\* handler pops the job from active_verifications
WorkerVerify ==
    /\ worker.pc = "verify"
    /\ \E raised \in BOOLEAN :
          IF raised
          THEN /\ active_verifications' = active_verifications \ {worker.job}
               /\ worker' = WorkerIdle
          ELSE /\ worker' = [worker EXCEPT !.pc = "store"]
               /\ UNCHANGED active_verifications
    /\ UNCHANGED <<verification_queue, verification_results, queued_ids,
                   status_request, status_reply>>
    /\ AsyncUnchanged

\* verification_results[job_id] = result (and the history entry)
WorkerStore ==
    /\ worker.pc = "store"
    /\ verification_results' = verification_results \cup {worker.job}
    /\ worker' = [worker EXCEPT !.pc = "remove active"]
    /\ UNCHANGED <<verification_queue, active_verifications, queued_ids,
                   status_request, status_reply>>
    /\ AsyncUnchanged

\* del active_verifications[job_id]; verification_queue.task_done()
WorkerRemoveActive ==
    /\ worker.pc = "remove active"
    /\ active_verifications' = active_verifications \ {worker.job}
    /\ worker' = WorkerIdle
    /\ UNCHANGED <<verification_queue, verification_results, queued_ids,
                   status_request, status_reply>>
    /\ AsyncUnchanged

\* GET /verify_status/<job_id> arrives; the request remembers whether the
\* id had been returned as queued and whether its result was stored
StatusRequest ==
    /\ status_request.pc = "none"
    /\ \E job_id \in JobIds :
          /\ status_request' = [pc |-> "check results", job |-> job_id]
          /\ status_reply' = [job |-> job_id, status |-> "pending",
                              submitted |-> job_id \in queued_ids,
                              stored |-> job_id \in verification_results]
    /\ UNCHANGED <<verification_queue, verification_results,
                   active_verifications, worker, queued_ids>>
    /\ AsyncUnchanged

\* if job_id in verification_results: the answer is completed
StatusCheckResults ==
    /\ status_request.pc = "check results"
    /\ IF status_request.job \in verification_results
       THEN /\ status_reply' = [status_reply EXCEPT !.status = "completed"]
            /\ status_request' = NoStatusRequest
       ELSE /\ status_request' = [status_request EXCEPT !.pc = "check active"]
            /\ UNCHANGED status_reply
    /\ UNCHANGED <<verification_queue, verification_results,
                   active_verifications, worker, queued_ids>>
    /\ AsyncUnchanged

\* elif job_id in active_verifications: ... else: not_found (404)
StatusCheckActive ==
    /\ status_request.pc = "check active"
    /\ IF status_request.job \in active_verifications
       THEN /\ status_request' = [status_request EXCEPT !.pc = "read active"]
            /\ UNCHANGED status_reply
       ELSE /\ status_reply' = [status_reply EXCEPT !.status = "not_found"]
            /\ status_request' = NoStatusRequest
    /\ UNCHANGED <<verification_queue, verification_results,
                   active_verifications, worker, queued_ids>>
    /\ AsyncUnchanged

\* active_verifications[job_id]['status']: 'running', or KeyError (a 500
\* answer) when the worker has removed the entry meanwhile
StatusReadActive ==
    /\ status_request.pc = "read active"
    /\ status_reply' = [status_reply EXCEPT !.status =
                           IF status_request.job \in active_verifications
                           THEN "running" ELSE "error"]
    /\ status_request' = NoStatusRequest
    /\ UNCHANGED <<verification_queue, verification_results,
                   active_verifications, worker, queued_ids>>
    /\ AsyncUnchanged

NextAsync ==
    \/ verify_async
    \/ WorkerGet
    \/ WorkerSetActive
    \/ WorkerVerify
    \/ WorkerStore
    \/ WorkerRemoveActive
    \/ StatusRequest
    \/ StatusCheckResults
    \/ StatusCheckActive
    \/ StatusReadActive

SpecAsync == InitAsync /\ [][NextAsync]_vars

\* C38: once a job has been submitted and its id returned with status
\* queued, a status query for that id never answers not_found, under any
\* interleaving of the submitting request, the status request and the
\* worker; the job is reported as waiting or running until its result is
\* stored, and as completed afterwards.
C38_JobNeverNotFound ==
    (status_reply.status \notin {"none", "pending"} /\ status_reply.submitted) =>
        /\ status_reply.status # "not_found"
        /\ status_reply.status \in {"queued", "running", "completed"}
        /\ status_reply.stored => status_reply.status = "completed"
        /\ status_reply.status = "completed" =>
              status_reply.job \in verification_results

====
